---- MODULE Spec2Model ----
(***************************************************************************)
(* rustbuster: the concurrent enumeration engine.                          *)
(*                                                                         *)
(* The model follows one run of a mode (dir, fuzz, vhost, dns) from the    *)
(* point where the candidate list has been generated: the dispatcher       *)
(* (stream::iter(..).map(..).buffer_unordered(threads).collect()), the     *)
(* per-candidate futures, the bounded mpsc channel of TuiMessage and the   *)
(* Live Display loop (Tui::run) or, with --no-tui, the batch reporter.     *)
(*                                                                         *)
(* buffer_unordered is the futures 0.3 combinator: on every poll it first  *)
(* pulls futures from the underlying stream while fewer than `max` are in  *)
(* progress, then polls the ones in progress, and it ends when the stream  *)
(* has returned None and nothing is in progress.                           *)
(*                                                                         *)
(* Specifications: Spec, FairSpec and FairTuiSpec (the scan), FilterSpec   *)
(* (the scan of one candidate under --smart-404 and --filter-size),        *)
(* HttpSpec (the requests of a vhost run, with the live display and        *)
(* without, as HttpClient::request builds them), SinkSpec (the scan        *)
(* with its output file and a terminal that may fail to draw), RunSpec and *)
(* FairRunSpec (a mode's run from its entry to its return, the recursive   *)
(* dir traversal included), TraversalSpec (that traversal against any list *)
(* of discovered directories), SessionSpec (utils/session.rs), ScrollSpec  *)
(* (the scroll keys of the display) and CallSpec (the classifier, the      *)
(* wordlist functions and the candidate generators, each called on         *)
(* arguments from small sets).                                             *)
(***************************************************************************)
EXTENDS Integers, Sequences, FiniteSets, TLC

\* ---------------------------------------------------------------- bounds
MaxCand == 2
MaxThreads == 2
MaxWords == 2
MaxExts == 2
MaxLines == 2
MaxDepth == 1
MaxSegs == 3

\* ------------------------------------------------------ program constants
ChannelCapacity == 100
U16Max == 65535

Modes == {"dir", "fuzz", "vhost", "dns"}

\* status codes a server answers with in the model
Statuses == {200, 404}

\* -s/--status-codes values tried: the clap default, and a value none of whose
\* comma-separated parts parses as u16 (the parsed list is then empty)
DefaultStatusArg == <<200, 204, 301, 302, 307, 401, 403>>
StatusArgs == {DefaultStatusArg, <<70000>>}

\* -n/--negative-status-codes values tried: absent (<<>> stands for None, which
\* unwrap_or_default turns into the empty Vec), and a list that names a code of
\* the positive default beside a part that does not parse
NegativeArgs == {<<>>, <<200, 70000>>}

VARIABLES
    mode,            \* Commands variant
    no_tui,          \* CommonArgs::no_tui
    threads,         \* CommonArgs::threads
    expanded,        \* CommonArgs::expanded (read by the --no-tui paths only)
    status_codes,    \* get_status_codes()
    negative_codes,  \* get_negative_status_codes()
    total,           \* urls.len(): the candidates are 1..total
    scan_pc,         \* the scan task: "running", "sendDone", "returned"
    next_url,        \* position of stream::iter(urls)
    stream_done,     \* the fused stream has returned None
    fut,             \* position of each candidate's future
    resp,            \* what the transport answered for each candidate
    calls,           \* transport invocations per candidate
    emitted,         \* TuiMessage kinds each future handed to tx.send, in order
    done_sent,       \* number of tx.send(TuiMessage::Done) calls
    chan,            \* the mpsc channel's queue
    rx_open,         \* the Receiver has not been dropped
    tui_pc,          \* run_tui_mode / Tui::run position
    state,           \* TuiState
    found,           \* the batch paths' AtomicUsize found counter
    printed,         \* results the batch reporter printed, in order
    output,          \* CommonArgs::output is Some(file)
    output_format,   \* CommonArgs::output_format
    out_file,        \* the content of the output file
    results_buffer,  \* OutputHandler::results_buffer
    draw_fails,      \* the terminal backend refuses to draw at present
    call,            \* a function of the program and the arguments it is called with
    ret,             \* what the call returned
    smart_404,       \* CommonArgs::smart_404
    filter_size,     \* the sizes CommonArgs::filter_size names
    body,            \* the page the server answers each candidate with
    run_args,        \* the command line of a run, its wordlist file and proxy setting
    run_pc,          \* the position of the mode's run function
    run_ret,         \* what run returned
    requests,        \* the transport calls issued so far, in order
    run_words,       \* words: the words loaded (and expanded)
    dirs_to_scan,    \* run_recursive: the traversal stack
    scanned_dirs,    \* run_recursive: the directories scanned
    current,         \* run_recursive: (current_url, depth)
    discovered_dirs, \* Scanner::discovered_dirs
    handler_dirs,    \* OutputHandler::discovered_dirs
    hits,            \* URLs ending in '/' answered 200/301/302, with depth + 1
    scans,           \* run_recursive: the (directory, depth) of each scan_urls call, in order
    session,         \* a Session in memory
    disk,            \* ~/.rustbuster/sessions: the content of each file
    clock,           \* Utc::now()
    loaded,          \* what the last Session::load was asked for and returned
    saved,           \* per session name, the sessions as they were at each save
    scroll_offset,   \* TuiState::scroll_offset
    results_len,     \* TuiState::results.len()
    term_rows,       \* the height of the terminal
    http_cfg,        \* the options of a vhost command line that shape its requests
    user_agent_index,\* HttpClient::user_agent_index of each run's client
    http_req         \* per run and vhost: the request as far as it has been built

\* the variables of the scan (dispatcher, channel, display)
scan_vars == <<mode, no_tui, threads, expanded, status_codes, negative_codes, total,
               scan_pc, next_url, stream_done, fut, resp, calls, emitted, done_sent,
               chan, rx_open, tui_pc, state, found, printed,
               output, output_format, out_file, results_buffer, draw_fails>>

\* what a scan leaves outside the process, and the terminal it draws on
io == <<out_file, results_buffer, draw_fails>>

\* the variables a scan neither reads nor writes
filter_vars == <<smart_404, filter_size, body>>

run_vars == <<run_args, run_pc, run_ret, requests, run_words, dirs_to_scan, scanned_dirs,
              current, discovered_dirs, handler_dirs, hits, scans>>

session_vars == <<session, disk, clock, loaded, saved>>

\* the variables of the specifications that run no scan and no mode
scroll_vars == <<scroll_offset, results_len, term_rows>>

\* the variables of the vhost runs' requests
http_vars == <<http_cfg, user_agent_index, http_req>>

side_vars == <<session_vars, scroll_vars, http_vars>>

aux == <<call, ret, filter_vars, run_vars, side_vars>>

vars == <<scan_vars, aux>>

config == <<mode, no_tui, threads, expanded, status_codes, negative_codes, total,
            output, output_format>>

Cands == 1..total

\* ------------------------------------------------------------ CLI parsing

\* s.trim().parse::<u16>().ok(): a part parses iff it is a number in 0..=65535
ParsesAsU16(tok) == tok \in 0..U16Max

\* CommonArgs::get_status_codes: split(','), filter_map(parse::<u16>().ok())
get_status_codes(arg) == {arg[i] : i \in {j \in DOMAIN arg : ParsesAsU16(arg[j])}}

\* CommonArgs::get_negative_status_codes: the same on the Option, None -> empty
get_negative_status_codes(arg) == {arg[i] : i \in {j \in DOMAIN arg : ParsesAsU16(arg[j])}}

\* --------------------------------------------------------------- wordlist

\* the sequences over S of length at most n
SeqsUpTo(S, n) == UNION {[1..k -> S] : k \in 0..n}

IsWhitespace(ch) == ch \in {" ", "\t"}

\* str::trim_start, str::trim_end, str::trim
RECURSIVE trim_start(_)
trim_start(str) ==
    IF str # "" /\ IsWhitespace(SubSeq(str, 1, 1))
    THEN trim_start(SubSeq(str, 2, Len(str)))
    ELSE str

RECURSIVE trim_end(_)
trim_end(str) ==
    IF str # "" /\ IsWhitespace(SubSeq(str, Len(str), Len(str)))
    THEN trim_end(SubSeq(str, 1, Len(str) - 1))
    ELSE str

trim(str) == trim_end(trim_start(str))

\* str::starts_with
starts_with(str, prefix) ==
    Len(str) >= Len(prefix) /\ SubSeq(str, 1, Len(prefix)) = prefix

\* what BufReader::lines yields for one line of the file: Ok(text) when the
\* line's bytes are UTF-8, Err otherwise (the iteration goes on with the next
\* line)
Line(valid, text) == [utf8 |-> valid, text |-> text]

\* the iterator chain of from_file: filter_map(line.ok()), map(trim),
\* filter(!is_empty && !starts_with('#')), collect
RECURSIVE Collect(_)
Collect(lines) ==
    IF lines = <<>>
    THEN <<>>
    ELSE LET line == Head(lines)
             rest == Collect(Tail(lines))
         IN IF ~line.utf8
            THEN rest
            ELSE IF trim(line.text) # "" /\ ~starts_with(trim(line.text), "#")
                 THEN <<trim(line.text)>> \o rest
                 ELSE rest

Returned(v) == [kind |-> "ok", value |-> v]
Raised(e) == [kind |-> "err", value |-> e]

\* Wordlist::from_file
from_file(file) ==
    IF ~file.opens
    THEN Raised("Failed to open wordlist file")
    ELSE IF Collect(file.lines) = <<>>
         THEN Raised("Wordlist is empty or contains no valid entries")
         ELSE Returned(Collect(file.lines))

\* the inner loop of expand_with_extensions: format!("{}{}", word, ext) for
\* each ext, in order
RECURSIVE Variants(_, _)
Variants(word, extensions) ==
    IF extensions = <<>>
    THEN <<>>
    ELSE <<word \o Head(extensions)>> \o Variants(word, Tail(extensions))

\* an expansion that pushes the variants of a word before the word itself
\* (C15 must reject it)
RECURSIVE ExpandVariantsFirst(_, _)
ExpandVariantsFirst(words, extensions) ==
    IF words = <<>>
    THEN <<>>
    ELSE (Variants(Head(words), extensions) \o <<Head(words)>>)
            \o ExpandVariantsFirst(Tail(words), extensions)

\* Wordlist::expand_with_extensions: for each word, the word, then its variants
RECURSIVE expand_with_extensions(_, _)
expand_with_extensions(words, extensions) ==
    IF words = <<>>
    THEN <<>>
    ELSE (<<Head(words)>> \o Variants(Head(words), extensions))
            \o expand_with_extensions(Tail(words), extensions)

\* -------------------------------------------------------------------- URLs

\* str::ends_with, str::contains, str::trim_end_matches for a one-char pattern
ends_with(str, suffix) ==
    Len(str) >= Len(suffix) /\ SubSeq(str, Len(str) - Len(suffix) + 1, Len(str)) = suffix

contains(str, pat) ==
    \E i \in 1..(Len(str) - Len(pat) + 1) : SubSeq(str, i, i + Len(pat) - 1) = pat

RECURSIVE trim_end_matches(_, _)
trim_end_matches(str, ch) ==
    IF ends_with(str, ch) /\ ch # ""
    THEN trim_end_matches(SubSeq(str, 1, Len(str) - 1), ch)
    ELSE str

\* the first position at or after `from` where str has ch, 0 if there is none
RECURSIVE IndexOf(_, _, _)
IndexOf(str, ch, from) ==
    IF from > Len(str) THEN 0
    ELSE IF SubSeq(str, from, from) = ch THEN from
    ELSE IndexOf(str, ch, from + 1)

\* Url::parse for http URLs without query or fragment: the origin up to the
\* first '/' after the host and the path from there ("/" when there is none);
\* anything else is a parse error
UrlParse(str) ==
    IF ~starts_with(str, "http://") \/ Len(str) = Len("http://")
    THEN Raised("relative URL without a base")
    ELSE LET slash == IndexOf(str, "/", Len("http://") + 1)
         IN Returned([origin |-> IF slash = 0 THEN str ELSE SubSeq(str, 1, slash - 1),
                      path |-> IF slash = 0 THEN "/" ELSE SubSeq(str, slash, Len(str))])

\* Url::set_path with a path that starts with '/' and needs no escaping,
\* Url::to_string
set_path(url, path) == [url EXCEPT !.path = path]

UrlToString(url) == url.origin \o url.path

\* ---------------------------------------------------- candidate generation

\* CommonArgs::get_extensions on the parts of the option text between commas
\* (<<>> stands for None): each part trimmed, a '.' put before it if missing
get_extensions(parts) ==
    [i \in DOMAIN parts |->
        IF starts_with(trim(parts[i]), ".") THEN trim(parts[i]) ELSE "." \o trim(parts[i])]

\* the list --backup-extensions adds
BackupExtensions == <<".bak", ".backup", ".old", ".orig", ".save", ".swp", ".tmp", "~">>

\* extensions of the dir runs
DirExtensions(parts, backup) ==
    get_extensions(parts) \o (IF backup THEN BackupExtensions ELSE <<>>)

\* words: expanded when there are extensions, the wordlist itself otherwise
ExpandedWords(wordlist, extensions) ==
    IF extensions # <<>> THEN expand_with_extensions(wordlist, extensions) ELSE wordlist

\* a replacement that stops after the first match, as str::replacen(.., 1)
\* (C18 must reject it)
ReplaceFirst(str, from, to) ==
    IF ~contains(str, from)
    THEN str
    ELSE LET at == CHOOSE i \in 1..Len(str) :
                      /\ SubSeq(str, i, i + Len(from) - 1) = from
                      /\ \A j \in 1..(i - 1) : SubSeq(str, j, j + Len(from) - 1) # from
         IN SubSeq(str, 1, at - 1) \o to \o SubSeq(str, at + Len(from), Len(str))

\* str::replace: the matches of a non-empty pattern are found from left to
\* right without overlap, and the replacement is not searched again
RECURSIVE replace(_, _, _)
replace(str, from, to) ==
    IF str = "" THEN ""
    ELSE IF starts_with(str, from)
         THEN to \o replace(SubSeq(str, Len(from) + 1, Len(str)), from, to)
         ELSE SubSeq(str, 1, 1) \o replace(SubSeq(str, 2, Len(str)), from, to)

\* urls of the fuzz run
FuzzUrls(url, ws) == [i \in DOMAIN ws |-> replace(url, "FUZZ", ws[i])]

\* path of the dir runs: the word, with a '/' put before it if it has none
WordPath(word) == IF starts_with(word, "/") THEN word ELSE "/" \o word

\* urls of run_single and run_with_tui: set_path replaces the base URL's path
DirUrls(base_url, ws) ==
    [i \in DOMAIN ws |-> UrlToString(set_path(base_url, WordPath(ws[i])))]

\* urls of run_recursive: the current path without its trailing '/', then the
\* word's path
RecursiveDirUrls(current_base, ws) ==
    [i \in DOMAIN ws |->
        UrlToString(set_path(current_base,
                             trim_end_matches(current_base.path, "/") \o WordPath(ws[i])))]

\* str::trim_start_matches
RECURSIVE trim_start_matches(_, _)
trim_start_matches(str, prefix) ==
    IF starts_with(str, prefix) /\ prefix # ""
    THEN trim_start_matches(SubSeq(str, Len(prefix) + 1, Len(str)), prefix)
    ELSE str

\* vhosts of the vhost runs, subdomains of the dns runs
HostNames(ws, domain) == [i \in DOMAIN ws |-> ws[i] \o "." \o domain]

base_domain(url) == trim_start_matches(trim_start_matches(url, "http://"), "https://")

\* ------------------------------------------------------------- classifier

\* a default that replaces the positive list whenever no negative list is
\* given (C11 must reject it)
DefaultStatusCodesNoNegative(sc, nc) ==
    IF nc = {} THEN 200..299 ELSE sc

\* default_status_codes of the vhost scans
DefaultStatusCodes(sc, nc) ==
    IF sc = {} /\ nc = {} THEN 200..299 ELSE sc

\* a classifier that consults the positive list first (C10 must reject it)
ShouldDisplayNegativeIgnored(status, sc, nc) ==
    IF sc # {} THEN status \in sc
    ELSE IF nc # {} THEN status \notin nc
    ELSE status \in 200..299

\* should_display of the vhost scans
ShouldDisplay(status, sc, nc) ==
    IF nc # {} THEN status \notin nc
    ELSE IF sc # {} THEN status \in sc
    ELSE status \in 200..299

\* -------------------------------------------------- false-positive filters

\* pages a server answers with: its page for a path that does not exist, a
\* page of the same length, and a longer one
NotFoundBody == "nf"
Bodies == {NotFoundBody, "ok", "home"}

\* response.content_length() of a page (the server states its length)
ContentLength(b) == Len(b)

\* Smart404Detector::hash_content: SHA-256 in hex, taken as collision-free
hash_content(content) == <<"sha256", content>>

\* Smart404Detector::new
NewDetector(enabled) ==
    [baseline_hashes |-> {}, baseline_sizes |-> {}, enabled |-> enabled]

\* Smart404Detector::calibrate: the three random paths do not exist, so every
\* request that succeeds brings the not-found page; answered is how many did
Calibrate(det, answered) ==
    IF ~det.enabled \/ answered = 0
    THEN det
    ELSE [det EXCEPT !.baseline_hashes = @ \cup {hash_content(NotFoundBody)},
                     !.baseline_sizes = @ \cup {Len(NotFoundBody)}]

\* Smart404Detector::is_false_positive
is_false_positive(det, b, size) ==
    IF ~det.enabled
    THEN FALSE
    ELSE hash_content(b) \in det.baseline_hashes \/ size \in det.baseline_sizes

\* --filter-size values tried (the sizes the option text names)
FilterSizeArgs == SUBSET {2, 4}

\* ------------------------------------------------------------- transport

NoResp == [kind |-> "none", status |-> 0, ips |-> FALSE]
ErrResp == [kind |-> "err", status |-> 0, ips |-> FALSE]

\* Result<Response> of HttpClient::request, Result<LookupIp> of lookup_ip
Responses(m) ==
    IF m = "dns"
    THEN {[kind |-> "ok", status |-> 0, ips |-> b] : b \in BOOLEAN} \cup {ErrResp}
    ELSE {[kind |-> "ok", status |-> s, ips |-> FALSE] : s \in Statuses} \cup {ErrResp}

\* ----------------------------------------------------------------- events

Msg(k, c, s) == [kind |-> k, cand |-> c, status |-> s]

\* a future that sends no Scanned (C5 must reject it)
OnStartNone(c) == <<>>

\* what a future sends before it issues its probe (TUI paths)
OnStart(c) == <<Msg("Scanned", c, 0)>>

\* the classifier the mode applies to a successful outcome before it sends
\* TuiMessage::Result: dir and fuzz (Scanner::scan_urls_with_tui) send every
\* response, vhost sends when should_display, dns when the answer has addresses
Accepts(m, r, sc, nc) ==
    CASE m \in {"dir", "fuzz"} -> TRUE
      [] m = "vhost" -> ShouldDisplay(r.status, DefaultStatusCodes(sc, nc), nc)
      [] m = "dns" -> r.ips

ResultStatus(m, r) == IF m = "dns" THEN 200 ELSE r.status

\* a future whose Err arm sends nothing (C33 must reject it)
OnOutcomeQuiet(c, r) ==
    IF r.kind = "ok"
    THEN IF Accepts(mode, r, status_codes, negative_codes)
         THEN <<Msg("Result", c, ResultStatus(mode, r))>>
         ELSE <<>>
    ELSE <<>>

\* a future whose Ok arm falls through into the Err arm (C9 must reject it)
OnOutcomeBoth(c, r) ==
    IF r.kind = "ok"
    THEN <<Msg("Result", c, ResultStatus(mode, r)), Msg("Error", c, 0)>>
    ELSE <<Msg("Error", c, 0)>>

\* what a future sends once its probe has resolved (the match on the Result)
OnOutcome(c, r) ==
    IF r.kind = "ok"
    THEN IF Accepts(mode, r, status_codes, negative_codes)
         THEN <<Msg("Result", c, ResultStatus(mode, r))>>
         ELSE <<>>
    ELSE <<Msg("Error", c, 0)>>

Kinds(msgs) == [i \in DOMAIN msgs |-> msgs[i].kind]

\* tx.send(..).await completes when the queue has room, or at once with an
\* error (ignored by `let _ =`) when the receiver is gone
CanSend(n) == ~rx_open \/ Len(chan) + n <= ChannelCapacity

\* a queue that hands out the newest message first (C32 must reject it)
SentFirst(msgs) == IF rx_open THEN msgs \o chan ELSE chan

\* mpsc: the messages are queued in the order they are sent
Sent(msgs) == IF rx_open THEN chan \o msgs ELSE chan

\* -------------------------------------------------------------- dispatcher

InQueue == {c \in Cands : fut[c] \in {"new", "request", "resolved"}}

InFlight == {c \in Cands : fut[c] = "request"}

\* a fill loop that admits one future too many (C2 must reject it)
QueueHasRoomOffByOne == Cardinality(InQueue) <= threads

\* BufferUnordered::poll_next: while in_progress_queue.len() < max
QueueHasRoom == Cardinality(InQueue) < threads

\* the fill loop runs before the futures in progress are polled
Filling == QueueHasRoom /\ ~stream_done

\* a scan that goes on to Done while futures are still in progress (C3 must
\* reject it)
AllCollectedEarly == stream_done

\* BufferUnordered ends: in_progress_queue is empty and stream.is_done()
AllCollected == stream_done /\ InQueue = {}

\* an Err arm that puts the candidate back to be probed again (C1 must reject it)
AfterErrorRetry == "new"

\* the Err arm ends the async block: the future completes
AfterError == "finished"

\* no function is being called on its own
NoCall == [fn |-> "none"]
NoRet == [kind |-> "none"]

\* the variables a scan does not use, at rest
CallIdle ==
    /\ call = NoCall
    /\ ret = NoRet

FilterIdle ==
    /\ smart_404 = FALSE
    /\ filter_size = {}
    /\ body = [c \in Cands |-> NotFoundBody]

RunIdle ==
    /\ run_args = NoCall
    /\ run_pc = "off"
    /\ run_ret = NoRet
    /\ requests = <<>>
    /\ run_words = <<>>
    /\ dirs_to_scan = <<>>
    /\ scanned_dirs = {}
    /\ current = [url |-> "", depth |-> 0]
    /\ discovered_dirs = <<>>
    /\ handler_dirs = <<>>
    /\ hits = {}
    /\ scans = <<>>

\* no session in memory, an empty sessions directory
SessionIdle ==
    /\ session = NoCall
    /\ disk = <<>>
    /\ clock = 0
    /\ loaded = NoRet
    /\ saved = <<>>

\* a display of no rows on a terminal of 24 lines
ScrollIdle ==
    /\ scroll_offset = 0
    /\ results_len = 0
    /\ term_rows = 24

\* no vhost run
Sinks == {"tui", "batch"}

HttpIdle ==
    /\ http_cfg = NoCall
    /\ user_agent_index = [s \in Sinks |-> 0]
    /\ http_req = [s \in Sinks |-> <<>>]

SideIdle ==
    /\ SessionIdle
    /\ ScrollIdle
    /\ HttpIdle

\* ------------------------------------------------------------ output file
\* A file is its format, whether it starts with the CSV header line, and its
\* rows (one line or one JSON object per result), in order. The writers put
\* the fields of a row down as they are (CSV fields are not quoted).
NoOutput == [format |-> "none", header |-> FALSE, rows |-> <<>>]

\* what an earlier run left under the same name
OldOutput == [format |-> "plain", header |-> FALSE,
              rows |-> <<[url |-> 0, status_code |-> 200]>>]

OutputFormats == {"plain", "json", "csv"}

\* write_plain_results: create, truncate, a line per result
write_plain_results(results) == [format |-> "plain", header |-> FALSE, rows |-> results]

\* write_json_results: fs::write of the array of objects
write_json_results(results) == [format |-> "json", header |-> FALSE, rows |-> results]

\* write_csv_results: create, truncate, the header line, a line per result
write_csv_results(results) == [format |-> "csv", header |-> TRUE, rows |-> results]

\* write_results_to_file
write_results_to_file(results, format) ==
    CASE format = "json" -> write_json_results(results)
      [] format = "csv" -> write_csv_results(results)
      [] OTHER -> write_plain_results(results)

\* OutputHandler::write_plain_to_file: create, append one line
write_plain_to_file(file, result) ==
    [format |-> "plain", header |-> file.header, rows |-> Append(file.rows, result)]

\* a display that hands over its results only after Done (C27 must reject it)
ResultsIfComplete(st) == IF st.scan_complete THEN st.results ELSE <<>>

\* run_tui_mode: let state = state.lock().await; &state.results
ResultsToWrite(st) == st.results

\* no -o, the default format, no file, an empty buffer, a terminal that draws
OutputIdle ==
    /\ output = FALSE
    /\ output_format = "plain"
    /\ out_file = NoOutput
    /\ results_buffer = <<>>
    /\ draw_fails = FALSE

AuxIdle ==
    /\ CallIdle
    /\ FilterIdle
    /\ RunIdle
    /\ SideIdle

Init ==
    /\ mode \in Modes
    /\ no_tui \in BOOLEAN
    /\ threads \in 0..MaxThreads
    /\ expanded \in (IF no_tui THEN BOOLEAN ELSE {FALSE})
    /\ \E a \in StatusArgs : status_codes = get_status_codes(a)
    /\ \E a \in NegativeArgs : negative_codes = get_negative_status_codes(a)
    /\ total \in 1..MaxCand
    /\ scan_pc = "running"
    /\ next_url = 1
    /\ stream_done = FALSE
    /\ fut = [c \in Cands |-> "idle"]
    /\ resp = [c \in Cands |-> NoResp]
    /\ calls = [c \in Cands |-> 0]
    /\ emitted = [c \in Cands |-> <<>>]
    /\ done_sent = 0
    /\ chan = <<>>
    /\ rx_open = ~no_tui
    /\ tui_pc = IF no_tui THEN "off" ELSE "loop"
    /\ state = [results |-> <<>>, scanned |-> 0, found |-> 0, errors |-> 0,
                scan_complete |-> FALSE]
    /\ found = 0
    /\ printed = <<>>
    /\ OutputIdle
    /\ AuxIdle

\* the fill loop pulls the next url and pushes its future
Spawn ==
    /\ scan_pc = "running"
    /\ QueueHasRoom
    /\ ~stream_done
    /\ next_url <= total
    /\ fut' = [fut EXCEPT ![next_url] = "new"]
    /\ next_url' = next_url + 1
    /\ UNCHANGED <<config, aux, io, scan_pc, stream_done, resp, calls, emitted, done_sent,
                   chan, rx_open, tui_pc, state, found, printed>>

\* the fill loop polls the exhausted stream: Fuse records the None
StreamEnd ==
    /\ scan_pc = "running"
    /\ QueueHasRoom
    /\ ~stream_done
    /\ next_url > total
    /\ stream_done' = TRUE
    /\ UNCHANGED <<config, aux, io, scan_pc, next_url, fut, resp, calls, emitted, done_sent,
                   chan, rx_open, tui_pc, state, found, printed>>

\* first poll of a candidate's future: (TUI) send Scanned, then issue the probe.
\* The futures in progress are polled by BufferUnordered after its fill loop.
Begin(c) ==
    /\ ~Filling
    /\ fut[c] = "new"
    /\ IF no_tui
       THEN UNCHANGED <<chan, emitted>>
       ELSE /\ CanSend(Len(OnStart(c)))
            /\ chan' = Sent(OnStart(c))
            /\ emitted' = [emitted EXCEPT ![c] = @ \o Kinds(OnStart(c))]
    /\ calls' = [calls EXCEPT ![c] = @ + 1]
    /\ fut' = [fut EXCEPT ![c] = "request"]
    /\ UNCHANGED <<config, aux, io, scan_pc, next_url, stream_done, resp, done_sent,
                   rx_open, tui_pc, state, found, printed>>

\* the transport resolves the probe to an outcome or a transport error
Resolve(c) ==
    /\ fut[c] = "request"
    /\ \E r \in Responses(mode) : resp' = [resp EXCEPT ![c] = r]
    /\ fut' = [fut EXCEPT ![c] = "resolved"]
    /\ UNCHANGED <<config, aux, io, scan_pc, next_url, stream_done, calls, emitted, done_sent,
                   chan, rx_open, tui_pc, state, found, printed>>

\* the batch paths' Ok arm: dir and fuzz print every response (print_result),
\* vhost counts and prints when should_display || expanded, dns when the
\* answer has addresses
BatchShows(r) ==
    CASE mode \in {"dir", "fuzz"} -> TRUE
      [] mode = "vhost" ->
            ShouldDisplay(r.status, DefaultStatusCodes(status_codes, negative_codes),
                          negative_codes) \/ expanded
      [] mode = "dns" -> r.ips

\* print_result (dir and fuzz): a format other than plain buffers the result
Buffered(buffer, c, r) ==
    IF mode \in {"dir", "fuzz"} /\ output_format # "plain"
    THEN Append(buffer, [url |-> c, status_code |-> r.status])
    ELSE buffer

\* print_result (dir and fuzz): the plain format appends the result to the
\* output file at once
Logged(file, c, r) ==
    IF mode \in {"dir", "fuzz"} /\ output_format = "plain" /\ output
    THEN write_plain_to_file(file, [url |-> c, status_code |-> r.status])
    ELSE file

\* the future is polled after its probe resolved and runs to its end
Complete(c) ==
    /\ ~Filling
    /\ fut[c] = "resolved"
    /\ IF no_tui
       THEN /\ UNCHANGED <<chan, emitted>>
            /\ IF resp[c].kind = "ok" /\ BatchShows(resp[c])
               THEN /\ printed' = Append(printed, [url |-> c, status_code |-> resp[c].status])
                    /\ found' = IF mode \in {"vhost", "dns"} THEN found + 1 ELSE found
                    /\ results_buffer' = Buffered(results_buffer, c, resp[c])
                    /\ out_file' = Logged(out_file, c, resp[c])
               ELSE UNCHANGED <<printed, found, results_buffer, out_file>>
       ELSE /\ CanSend(Len(OnOutcome(c, resp[c])))
            /\ chan' = Sent(OnOutcome(c, resp[c]))
            /\ emitted' = [emitted EXCEPT ![c] = @ \o Kinds(OnOutcome(c, resp[c]))]
            /\ UNCHANGED <<printed, found, results_buffer, out_file>>
    /\ fut' = [fut EXCEPT ![c] =
                 IF resp[c].kind = "err" THEN AfterError ELSE "finished"]
    /\ UNCHANGED <<config, aux, draw_fails, scan_pc, next_url, stream_done, resp, calls,
                   done_sent, rx_open, tui_pc, state>>

\* collect() has its Vec: the TUI paths go on to send Done, the batch paths return
Collected ==
    /\ scan_pc = "running"
    /\ AllCollected
    /\ scan_pc' = IF no_tui THEN "returned" ELSE "sendDone"
    /\ UNCHANGED <<config, aux, io, next_url, stream_done, fut, resp, calls, emitted, done_sent,
                   chan, rx_open, tui_pc, state, found, printed>>

\* let _ = tx.send(TuiMessage::Done).await; Ok(()) -- the last Sender is dropped
SendDone ==
    /\ scan_pc = "sendDone"
    /\ CanSend(1)
    /\ chan' = Sent(<<Msg("Done", 0, 0)>>)
    /\ done_sent' = done_sent + 1
    /\ scan_pc' = "returned"
    /\ UNCHANGED <<config, aux, io, next_url, stream_done, fut, resp, calls, emitted,
                   rx_open, tui_pc, state, found, printed>>

Dispatcher ==
    \/ Spawn
    \/ StreamEnd
    \/ \E c \in Cands : Begin(c)
    \/ \E c \in Cands : Complete(c)
    \/ Collected
    \/ SendDone

Transport == \E c \in Cands : Resolve(c)

\* ------------------------------------------------------------ live display

\* an add_result that pushes the row without counting it (C31 must reject it)
ApplyUncounted(st, msg) ==
    CASE msg.kind = "Result" ->
            [st EXCEPT !.results = Append(@, [url |-> msg.cand, status_code |-> msg.status])]
      [] msg.kind = "Scanned" -> [st EXCEPT !.scanned = @ + 1]
      [] msg.kind = "Error" -> [st EXCEPT !.errors = @ + 1]
      [] msg.kind = "Done" -> [st EXCEPT !.scan_complete = TRUE]

\* TuiState::add_result / increment_scanned / increment_errors, and the Done arm
Apply(st, msg) ==
    CASE msg.kind = "Result" ->
            [st EXCEPT !.found = @ + 1,
                       !.results = Append(@, [url |-> msg.cand, status_code |-> msg.status])]
      [] msg.kind = "Scanned" -> [st EXCEPT !.scanned = @ + 1]
      [] msg.kind = "Error" -> [st EXCEPT !.errors = @ + 1]
      [] msg.kind = "Done" -> [st EXCEPT !.scan_complete = TRUE]

\* what event::poll / event::read give in one iteration: no key within the
\* 50 ms, a quit key ('q' or Esc), another event, or an I/O error
PollOutcomes == {"none", "quit", "other", "err"}

\* head of one loop iteration: self.draw(), where a drawing failure is logged
\* and the iteration abandoned (continue); then event::poll(50 ms) and the key
\* match, where the quit key breaks out of the loop: run returns and its
\* Receiver is dropped with whatever is still queued
\* a drawing failure after which the iteration goes on to drain the channel
\* (C36 must reject it)
DrawErrorGoesOn == "recv"

\* a drawing failure that ends the display (C30 must reject it)
DrawErrorEndsRun == "awaitScan"

\* if let Err(e) = self.draw() { eprintln!(..); continue; }
OnDrawError == "loop"

TuiIterate ==
    /\ tui_pc = "loop"
    /\ \E ev \in PollOutcomes :
          CASE draw_fails ->
                  /\ tui_pc' = OnDrawError
                  /\ UNCHANGED <<rx_open, chan>>
            [] ~draw_fails /\ ev = "err" ->
                  /\ tui_pc' = "loop"
                  /\ UNCHANGED <<rx_open, chan>>
            [] ~draw_fails /\ ev = "quit" ->
                  /\ tui_pc' = "awaitScan"
                  /\ rx_open' = FALSE
                  /\ chan' = <<>>
            [] OTHER ->
                  /\ tui_pc' = "recv"
                  /\ UNCHANGED <<rx_open, chan>>
    /\ UNCHANGED <<config, aux, io, scan_pc, next_url, stream_done, fut, resp, calls, emitted,
                   done_sent, state, found, printed>>

\* a display whose loop ends when it consumes Done or finds the channel
\* disconnected (C34 must reject it)
TuiRecvEndsOnDone ==
    /\ tui_pc = "recv"
    /\ IF chan # <<>>
       THEN /\ state' = Apply(state, Head(chan))
            /\ chan' = Tail(chan)
            /\ tui_pc' = IF Head(chan).kind = "Done" THEN "awaitScan" ELSE "recv"
       ELSE /\ state' = IF scan_pc = "returned"
                        THEN [state EXCEPT !.scan_complete = TRUE]
                        ELSE state
            /\ chan' = chan
            /\ tui_pc' = IF scan_pc = "returned" THEN "awaitScan" ELSE "loop"
    /\ UNCHANGED <<config, aux, io, scan_pc, next_url, stream_done, fut, resp, calls, emitted,
                   done_sent, rx_open, found, printed>>

\* one rx.try_recv() of the inner loop
TuiRecv ==
    /\ tui_pc = "recv"
    /\ IF chan # <<>>
       THEN /\ state' = Apply(state, Head(chan))
            /\ chan' = Tail(chan)
            /\ tui_pc' = "recv"
       ELSE /\ state' = IF scan_pc = "returned"
                        THEN [state EXCEPT !.scan_complete = TRUE]
                        ELSE state
            /\ chan' = chan
            /\ tui_pc' = "loop"
    /\ UNCHANGED <<config, aux, io, scan_pc, next_url, stream_done, fut, resp, calls, emitted,
                   done_sent, rx_open, found, printed>>

\* run_tui_mode after tui.run: scan_handle.await, then the results of the
\* display are written to the output file if there is one, then return
TuiReturn ==
    /\ tui_pc = "awaitScan"
    /\ scan_pc = "returned"
    /\ tui_pc' = "returned"
    /\ out_file' = IF output
                   THEN write_results_to_file(ResultsToWrite(state), output_format)
                   ELSE out_file
    /\ UNCHANGED <<config, aux, results_buffer, draw_fails, scan_pc, next_url, stream_done,
                   fut, resp, calls, emitted, done_sent, chan, rx_open, state, found,
                   printed>>

Tui ==
    \/ TuiIterate
    \/ TuiRecv
    \/ TuiReturn

Next ==
    \/ Dispatcher
    \/ Transport
    \/ Tui

Spec == Init /\ [][Next]_vars

\* the runtime polls the scan task whenever it can make a step, and every
\* issued probe resolves (to an outcome or, at the latest on timeout, an error)
FairSpec ==
    /\ Spec
    /\ WF_vars(Dispatcher)
    /\ WF_vars(Transport)

\* and run_tui_mode, awaiting the scan task's handle after the display has
\* returned, goes on as soon as the task has finished
FairTuiSpec ==
    /\ FairSpec
    /\ WF_vars(TuiReturn)

\* a scan of one candidate whose server answers with a page of Bodies, under
\* every setting of --smart-404 and --filter-size
FilterInit ==
    /\ mode \in {"dir", "fuzz", "vhost"}
    /\ no_tui \in BOOLEAN
    /\ threads = 1
    /\ expanded = FALSE
    /\ status_codes = get_status_codes(DefaultStatusArg)
    /\ negative_codes = {}
    /\ total = 1
    /\ scan_pc = "running"
    /\ next_url = 1
    /\ stream_done = FALSE
    /\ fut = [c \in Cands |-> "idle"]
    /\ resp = [c \in Cands |-> NoResp]
    /\ calls = [c \in Cands |-> 0]
    /\ emitted = [c \in Cands |-> <<>>]
    /\ done_sent = 0
    /\ chan = <<>>
    /\ rx_open = ~no_tui
    /\ tui_pc = IF no_tui THEN "off" ELSE "loop"
    /\ state = [results |-> <<>>, scanned |-> 0, found |-> 0, errors |-> 0,
                scan_complete |-> FALSE]
    /\ found = 0
    /\ printed = <<>>
    /\ OutputIdle
    /\ CallIdle
    /\ RunIdle
    /\ SideIdle
    /\ smart_404 \in BOOLEAN
    /\ filter_size \in FilterSizeArgs
    /\ body \in [Cands -> Bodies]

FilterSpec == FilterInit /\ [][Next]_vars

\* ------------------------------------------------ the scan and its sinks
\* A dir scan with one thread under every setting of -o and --output-format,
\* over an output file that is absent or left by an earlier run, on a
\* terminal whose backend may stop and resume drawing at any moment.
SinkInit ==
    /\ mode = "dir"
    /\ no_tui \in BOOLEAN
    /\ threads = 1
    /\ expanded = FALSE
    /\ status_codes = get_status_codes(DefaultStatusArg)
    /\ negative_codes = {}
    /\ total \in 1..MaxCand
    /\ scan_pc = "running"
    /\ next_url = 1
    /\ stream_done = FALSE
    /\ fut = [c \in Cands |-> "idle"]
    /\ resp = [c \in Cands |-> NoResp]
    /\ calls = [c \in Cands |-> 0]
    /\ emitted = [c \in Cands |-> <<>>]
    /\ done_sent = 0
    /\ chan = <<>>
    /\ rx_open = ~no_tui
    /\ tui_pc = IF no_tui THEN "off" ELSE "loop"
    /\ state = [results |-> <<>>, scanned |-> 0, found |-> 0, errors |-> 0,
                scan_complete |-> FALSE]
    /\ found = 0
    /\ printed = <<>>
    /\ output \in BOOLEAN
    /\ output_format \in OutputFormats
    /\ out_file \in {NoOutput, OldOutput}
    /\ results_buffer = <<>>
    /\ draw_fails = FALSE
    /\ AuxIdle

\* Terminal::draw starts or stops returning Err (the display is running)
BackendChange ==
    /\ tui_pc \in {"loop", "recv"}
    /\ draw_fails' = ~draw_fails
    /\ UNCHANGED <<config, aux, out_file, results_buffer, scan_pc, next_url, stream_done,
                   fut, resp, calls, emitted, done_sent, chan, rx_open, tui_pc, state,
                   found, printed>>

SinkNext ==
    \/ Next
    \/ BackendChange

SinkSpec == SinkInit /\ [][SinkNext]_vars

\* a scan that has not started, for the specifications that do not run one
ScanIdle ==
    /\ mode = "dir"
    /\ no_tui = TRUE
    /\ threads = 1
    /\ expanded = FALSE
    /\ status_codes = get_status_codes(DefaultStatusArg)
    /\ negative_codes = {}
    /\ total = 1
    /\ scan_pc = "running"
    /\ next_url = 1
    /\ stream_done = FALSE
    /\ fut = [c \in Cands |-> "idle"]
    /\ resp = [c \in Cands |-> NoResp]
    /\ calls = [c \in Cands |-> 0]
    /\ emitted = [c \in Cands |-> <<>>]
    /\ done_sent = 0
    /\ chan = <<>>
    /\ rx_open = FALSE
    /\ tui_pc = "off"
    /\ state = [results |-> <<>>, scanned |-> 0, found |-> 0, errors |-> 0,
                scan_complete |-> FALSE]
    /\ found = 0
    /\ printed = <<>>
    /\ OutputIdle

\* ------------------------------------------------------- the modes' run
\* One run of a mode from its entry to its return. The scan of a url list is
\* one step here (every url is requested once and answered); its dispatcher
\* is the subject of Spec.

\* -u / -d values tried
UrlArgs(m) ==
    CASE m = "dir" -> {"http://x", "http://x/app/", "x"}
      [] m = "fuzz" -> {"http://x/FUZZ", "http://x/"}
      [] m = "vhost" -> {"http://x"}
      [] m = "dns" -> {"x"}

\* wordlist files tried: one that cannot be opened, an empty one, one of a
\* comment and an empty line, two with different words, and one whose two
\* words differ by a leading '/' only
RunFiles ==
    {[opens |-> FALSE, lines |-> <<>>],
     [opens |-> TRUE, lines |-> <<>>],
     [opens |-> TRUE, lines |-> <<Line(TRUE, "#x"), Line(TRUE, "")>>],
     [opens |-> TRUE, lines |-> <<Line(TRUE, "admin/")>>],
     [opens |-> TRUE, lines |-> <<Line(TRUE, "admin/"), Line(TRUE, "login")>>],
     [opens |-> TRUE, lines |-> <<Line(TRUE, "admin/"), Line(TRUE, "/admin/")>>]}

ArgsOf(m) ==
    {[mode |-> m, no_tui |-> t, url |-> u, wordlist |-> w, file |-> f,
      extensions |-> e, backup_extensions |-> FALSE, recursive |-> r, depth |-> d,
      quiet |-> q, proxy_ok |-> p, threads |-> n, resume_session |-> s] :
        t \in BOOLEAN, u \in UrlArgs(m), w \in BOOLEAN, f \in RunFiles,
        e \in {<<>>, <<"php">>}, r \in (IF m = "dir" THEN BOOLEAN ELSE {FALSE}),
        d \in 0..MaxDepth, q \in BOOLEAN, p \in BOOLEAN, n \in 0..1,
        s \in BOOLEAN}

RunArgs == UNION {ArgsOf(m) : m \in Modes}

RunInit ==
    /\ ScanIdle
    /\ CallIdle
    /\ FilterIdle
    /\ SideIdle
    /\ run_args \in RunArgs
    /\ run_pc = "start"
    /\ run_ret = NoRet
    /\ requests = <<>>
    /\ run_words = <<>>
    /\ dirs_to_scan = <<>>
    /\ scanned_dirs = {}
    /\ current = [url |-> "", depth |-> 0]
    /\ discovered_dirs = <<>>
    /\ handler_dirs = <<>>
    /\ hits = {}
    /\ scans = <<>>

\* dir::run takes run_recursive
IsRecursive(a) == a.mode = "dir" /\ a.no_tui /\ a.recursive

\* entry of run: fuzz checks for the keyword, dir parses the URL; run_recursive
\* starts its stack with the base URL
RunStart ==
    /\ run_pc = "start"
    /\ IF run_args.mode = "fuzz" /\ ~contains(run_args.url, "FUZZ")
       THEN /\ run_ret' = Raised("URL must contain the FUZZ keyword")
            /\ run_pc' = "done"
            /\ UNCHANGED dirs_to_scan
       ELSE IF run_args.mode = "dir" /\ UrlParse(run_args.url).kind = "err"
       THEN /\ run_ret' = UrlParse(run_args.url)
            /\ run_pc' = "done"
            /\ UNCHANGED dirs_to_scan
       ELSE /\ run_pc' = "wordlist"
            /\ dirs_to_scan' =
                  IF IsRecursive(run_args)
                  THEN <<[url |-> UrlToString(UrlParse(run_args.url).value), depth |-> 0]>>
                  ELSE dirs_to_scan
            /\ UNCHANGED run_ret
    /\ UNCHANGED <<scan_vars, call, ret, filter_vars, side_vars, run_args, requests, run_words,
                   scanned_dirs, current, discovered_dirs, handler_dirs, hits, scans>>

\* a load whose failure is replaced by the empty list, as unwrap_or_default
\* would (C17 must reject it)
LoadedWordsOrDefault(a) ==
    IF ~a.wordlist \/ from_file(a.file).kind = "err"
    THEN Returned(<<>>)
    ELSE from_file(a.file)

\* args.common.wordlist.as_ref().ok_or_else(..)?, Wordlist::from_file(..)?
LoadedWords(a) ==
    IF ~a.wordlist THEN Raised("Wordlist is required") ELSE from_file(a.file)

\* the wordlist is loaded and (dir, fuzz) expanded
LoadWordlist ==
    /\ run_pc = "wordlist"
    /\ IF LoadedWords(run_args).kind = "err"
       THEN /\ run_ret' = LoadedWords(run_args)
            /\ run_pc' = "done"
            /\ UNCHANGED run_words
       ELSE /\ run_words' =
                  CASE run_args.mode = "dir" ->
                          ExpandedWords(LoadedWords(run_args).value,
                                        DirExtensions(run_args.extensions,
                                                      run_args.backup_extensions))
                    [] run_args.mode = "fuzz" ->
                          ExpandedWords(LoadedWords(run_args).value,
                                        get_extensions(run_args.extensions))
                    [] OTHER -> LoadedWords(run_args).value
            /\ run_pc' = IF IsRecursive(run_args) THEN "pop"
                         ELSE IF run_args.mode = "dns" THEN "scan" ELSE "client"
            /\ UNCHANGED run_ret
    /\ UNCHANGED <<scan_vars, call, ret, filter_vars, side_vars, run_args, requests, dirs_to_scan,
                   scanned_dirs, current, discovered_dirs, handler_dirs, hits, scans>>

\* a test that forgets the directories scanned (C21 must reject it)
SkippedByDepthOnly(top) == top.depth > run_args.depth

\* if depth > max_depth || scanned_dirs.contains(&current_url) { continue; }
Skipped(top) == top.depth > run_args.depth \/ top.url \in scanned_dirs

\* while let Some((current_url, depth)) = dirs_to_scan.pop(): an entry too
\* deep or scanned already is skipped, another becomes the current directory
Pop ==
    /\ run_pc = "pop"
    /\ IF dirs_to_scan = <<>>
       THEN /\ run_ret' = Returned("done")
            /\ run_pc' = "done"
            /\ UNCHANGED <<dirs_to_scan, scanned_dirs, current>>
       ELSE LET top == dirs_to_scan[Len(dirs_to_scan)]
            IN /\ dirs_to_scan' = SubSeq(dirs_to_scan, 1, Len(dirs_to_scan) - 1)
               /\ IF Skipped(top)
                  THEN UNCHANGED <<scanned_dirs, current, run_pc, run_ret>>
                  ELSE /\ scanned_dirs' = scanned_dirs \cup {top.url}
                       /\ current' = top
                       /\ IF UrlParse(top.url).kind = "err"
                          THEN run_ret' = UrlParse(top.url) /\ run_pc' = "done"
                          ELSE run_ret' = run_ret /\ run_pc' = "client"
    /\ UNCHANGED <<scan_vars, call, ret, filter_vars, side_vars, run_args, requests, run_words,
                   discovered_dirs, handler_dirs, hits, scans>>

\* run_single and run_recursive at depth 0 call detect_wildcard before the scan
WildcardFirst(a, depth) ==
    a.mode = "dir" /\ a.no_tui /\ (~a.recursive \/ depth = 0)

\* Scanner::new_from_common (vhost: HttpClient::new_from_common): a proxy that
\* cannot be configured is an error; the Scanner and its OutputHandler start
\* with empty discovered_dirs
NewScanner ==
    /\ run_pc = "client"
    /\ IF ~run_args.proxy_ok
       THEN /\ run_ret' = Raised("Failed to configure proxy")
            /\ run_pc' = "done"
            /\ UNCHANGED <<discovered_dirs, handler_dirs>>
       ELSE /\ discovered_dirs' = <<>>
            /\ handler_dirs' = <<>>
            /\ run_pc' = IF WildcardFirst(run_args, current.depth) THEN "wildcard" ELSE "scan"
            /\ UNCHANGED run_ret
    /\ UNCHANGED <<scan_vars, call, ret, filter_vars, side_vars, run_args, requests, run_words,
                   dirs_to_scan, scanned_dirs, current, hits, scans>>

\* Scanner::detect_wildcard: one request for a random path, its outcome only
\* printed
DetectWildcard ==
    /\ run_pc = "wildcard"
    /\ requests' = Append(requests,
                          (IF run_args.recursive
                           THEN current.url
                           ELSE UrlToString(UrlParse(run_args.url).value))
                              \o "/rustbuster-" \o "uuid")
    /\ run_pc' = "scan"
    /\ UNCHANGED <<scan_vars, call, ret, filter_vars, side_vars, run_args, run_ret, run_words,
                   dirs_to_scan, scanned_dirs, current, discovered_dirs, handler_dirs,
                   hits, scans>>

\* the candidates of the run
Urls(a, ws, cur) ==
    CASE a.mode = "fuzz" -> FuzzUrls(a.url, ws)
      [] a.mode = "dir" /\ IsRecursive(a) -> RecursiveDirUrls(UrlParse(cur.url).value, ws)
      [] a.mode = "dir" /\ ~IsRecursive(a) -> DirUrls(UrlParse(a.url).value, ws)
      [] a.mode = "vhost" -> HostNames(ws, base_domain(a.url))
      [] a.mode = "dns" -> HostNames(ws, a.url)

\* outcomes of a request in a run
RunAnswers ==
    {[kind |-> "ok", status |-> st, ips |-> FALSE] : st \in {200, 301, 404}} \cup {ErrResp}

\* the test of OutputHandler::print_result
IsDirectory(url, r) ==
    r.kind = "ok" /\ r.status \in {301, 302, 200} /\ ends_with(url, "/")

\* the urls of a list that were answered as a directory, in list order
DirectoriesOf(urls, ans) ==
    LET at == SelectSeq([i \in DOMAIN urls |-> i], LAMBDA i : IsDirectory(urls[i], ans[i]))
    IN [k \in DOMAIN at |-> urls[at[k]]]

\* scan_urls / scan_urls_with_tui / the vhost and dns scans: every candidate
\* is requested; scan_urls hands every response to print_result, which (unless
\* quiet) pushes a directory on the handler's list. buffer_unordered(0) never
\* yields, so with --threads 0 the scan issues nothing and never completes.
\* disc is the Scanner's own list when the scan returns, answers the answers
\* a server may give.
Scan(disc, answers) ==
    /\ run_pc = "scan"
    /\ run_args.threads > 0
    /\ LET urls == Urls(run_args, run_words, current)
       IN \E ans \in [DOMAIN urls -> answers] :
             /\ requests' = requests \o urls
             /\ handler_dirs' =
                   IF run_args.mode \in {"dir", "fuzz"} /\ run_args.no_tui /\ ~run_args.quiet
                   THEN handler_dirs \o DirectoriesOf(urls, ans)
                   ELSE handler_dirs
             /\ hits' =
                   IF IsRecursive(run_args)
                   THEN hits \cup {[url |-> urls[i], depth |-> current.depth + 1] :
                                      i \in {j \in DOMAIN urls : IsDirectory(urls[j], ans[j])}}
                   ELSE hits
    /\ scans' = IF IsRecursive(run_args) THEN Append(scans, current) ELSE scans
    /\ discovered_dirs' = disc
    /\ run_pc' = IF IsRecursive(run_args) THEN "push" ELSE "done"
    /\ run_ret' = IF IsRecursive(run_args) THEN run_ret ELSE Returned("done")
    /\ UNCHANGED <<scan_vars, call, ret, filter_vars, side_vars, run_args, run_words, dirs_to_scan,
                   scanned_dirs, current>>

\* nothing writes the Scanner's own list (scanner.rs:53)
ScanUrls == Scan(discovered_dirs, RunAnswers)

\* Scanner::get_discovered_dirs
get_discovered_dirs == discovered_dirs

\* for dir in scanner.get_discovered_dirs(): push (dir, depth + 1) unless scanned
PushDiscovered ==
    /\ run_pc = "push"
    /\ LET fresh == SelectSeq(get_discovered_dirs, LAMBDA d : d \notin scanned_dirs)
       IN dirs_to_scan' =
             dirs_to_scan \o [k \in DOMAIN fresh |-> [url |-> fresh[k], depth |-> current.depth + 1]]
    /\ run_pc' = "pop"
    /\ UNCHANGED <<scan_vars, call, ret, filter_vars, side_vars, run_args, run_ret, requests,
                   run_words,
                   scanned_dirs, current, discovered_dirs, handler_dirs, hits, scans>>

RunNext ==
    \/ RunStart
    \/ LoadWordlist
    \/ Pop
    \/ NewScanner
    \/ DetectWildcard
    \/ ScanUrls
    \/ PushDiscovered

RunSpec == RunInit /\ [][RunNext]_vars

\* a run is not kept waiting: whatever step it can take, it takes
FairRunSpec == RunSpec /\ WF_vars(RunNext)

\* ------------------------------------------- the traversal, Scanner open
\* run_recursive reads the directories to descend into from
\* Scanner::get_discovered_dirs. The Scanner of this program never writes its
\* list, so RunSpec only ever scans the base URL. Here the list is left open:
\* after each scan it is any list of at most MaxDiscovered entries over the
\* candidates of the scan, the entries still on the stack and the directory
\* being scanned, the empty list among them. What the servers answer reaches the
\* traversal through that list only, so every request is answered 200 here.
MaxDiscovered == 2

Discoverable ==
    {Urls(run_args, run_words, current)[i] :
        i \in DOMAIN Urls(run_args, run_words, current)}
    \cup {dirs_to_scan[i].url : i \in DOMAIN dirs_to_scan}
    \cup {current.url}

ScanUrlsOpen ==
    /\ run_pc = "scan"
    /\ \E disc \in SeqsUpTo(Discoverable, MaxDiscovered) :
          Scan(disc, {[kind |-> "ok", status |-> 200, ips |-> FALSE]})

\* the recursive runs of one base URL that reach the traversal (a wordlist
\* given, no extensions, a usable proxy setting, a thread to scan with)
TraversalInit ==
    /\ RunInit
    /\ IsRecursive(run_args)
    /\ run_args.url = "http://x"
    /\ run_args.wordlist
    /\ run_args.extensions = <<>>
    /\ run_args.proxy_ok
    /\ run_args.threads > 0
    /\ ~run_args.quiet
    /\ ~run_args.resume_session

TraversalNext ==
    \/ RunStart
    \/ LoadWordlist
    \/ Pop
    \/ NewScanner
    \/ DetectWildcard
    \/ ScanUrlsOpen
    \/ PushDiscovered

TraversalSpec == TraversalInit /\ [][TraversalNext]_vars

\* ------------------------------------------------------------ sessions
\* utils/session.rs. No mode constructs, saves or loads a Session (the
\* --save-session and --resume-session options are parsed and never read), so
\* its operations are exercised here on their own, in any order.
MaxCompleted == 2
MaxResults == 1
MaxSaves == 3

SessionNames == {"s1", "s2"}
SessionWords == {"admin", "login"}
SessionResults == {[url |-> "http://x/admin", status_code |-> 200, content_length |-> 10]}

\* Session::new
NewSession(name, target, wordlist, total_words, now) ==
    [name |-> name, created_at |-> now, last_updated |-> now, target |-> target,
     wordlist |-> wordlist, completed_words |-> <<>>, total_words |-> total_words,
     found_results |-> <<>>]

\* Session::add_completed_word: self.completed_words.push(word)
add_completed_word(s, word) ==
    [s EXCEPT !.completed_words = Append(@, word)]

\* Session::add_result: self.found_results.push(result)
add_result(s, result) ==
    [s EXCEPT !.found_results = Append(@, result)]

\* Session::is_word_completed: self.completed_words.contains(..)
is_word_completed(s, word) ==
    \E i \in DOMAIN s.completed_words : s.completed_words[i] = word

\* serde_json::to_string_pretty of the derived Serialize: an object of the
\* fields in declaration order
Serialize(s) ==
    <<<<"name", s.name>>, <<"created_at", s.created_at>>,
      <<"last_updated", s.last_updated>>, <<"target", s.target>>,
      <<"wordlist", s.wordlist>>, <<"completed_words", s.completed_words>>,
      <<"total_words", s.total_words>>, <<"found_results", s.found_results>>>>

HasField(json, key) == \E i \in DOMAIN json : json[i][1] = key

Field(json, key) == json[CHOOSE i \in DOMAIN json : json[i][1] = key][2]

SessionFields ==
    {"name", "created_at", "last_updated", "target", "wordlist", "completed_words",
     "total_words", "found_results"}

\* serde_json::from_str of the derived Deserialize: every field is required
Deserialize(json) ==
    IF \A k \in SessionFields : HasField(json, k)
    THEN Returned([name |-> Field(json, "name"),
                   created_at |-> Field(json, "created_at"),
                   last_updated |-> Field(json, "last_updated"),
                   target |-> Field(json, "target"),
                   wordlist |-> Field(json, "wordlist"),
                   completed_words |-> Field(json, "completed_words"),
                   total_words |-> Field(json, "total_words"),
                   found_results |-> Field(json, "found_results")])
    ELSE Raised("missing field")

\* sessions_dir.join(format!("{}.json", name))
SessionFile(name) == name \o ".json"

SessionFiles == {SessionFile(n) : n \in SessionNames}

NoFile == [exists |-> FALSE, text |-> <<>>]

\* a file that is not a session
OtherFile == [exists |-> TRUE, text |-> <<<<"name", "s1">>>>]

\* a write that leaves an existing file as it is (C26 must reject it)
WriteNew(d, file, text) ==
    IF d[file].exists THEN d ELSE [d EXCEPT ![file] = [exists |-> TRUE, text |-> text]]

\* fs::write: the file is created or replaced
Write(d, file, text) ==
    [d EXCEPT ![file] = [exists |-> TRUE, text |-> text]]

\* Session::load: read_to_string(..).context("Failed to load session")?,
\* serde_json::from_str(..)?
load(d, name) ==
    IF ~d[SessionFile(name)].exists
    THEN Raised("Failed to load session")
    ELSE Deserialize(d[SessionFile(name)].text)

\* a Session just constructed; the sessions directory holds nothing, or a
\* file under the first name that is not a session
SessionInit ==
    /\ ScanIdle
    /\ CallIdle
    /\ FilterIdle
    /\ RunIdle
    /\ ScrollIdle
    /\ HttpIdle
    /\ \E n \in SessionNames : session = NewSession(n, "http://x", "words.txt", 2, 0)
    /\ disk \in {[f \in SessionFiles |-> NoFile],
                 [f \in SessionFiles |-> IF f = SessionFile("s1") THEN OtherFile ELSE NoFile]}
    /\ clock = 1
    /\ loaded = NoRet
    /\ saved = [n \in SessionNames |-> <<>>]

AddCompletedWord(word) ==
    /\ Len(session.completed_words) < MaxCompleted
    /\ session' = add_completed_word(session, word)
    /\ UNCHANGED <<scan_vars, call, ret, filter_vars, run_vars, scroll_vars, http_vars,
                   disk, clock, loaded, saved>>

AddResult(result) ==
    /\ Len(session.found_results) < MaxResults
    /\ session' = add_result(session, result)
    /\ UNCHANGED <<scan_vars, call, ret, filter_vars, run_vars, scroll_vars, http_vars,
                   disk, clock, loaded, saved>>

\* Session::save: last_updated = Utc::now(), then the file named after the
\* session is written with the serialized session
Save ==
    /\ clock <= MaxSaves
    /\ session' = [session EXCEPT !.last_updated = clock]
    /\ disk' = Write(disk, SessionFile(session.name), Serialize(session'))
    /\ saved' = [saved EXCEPT ![session.name] = Append(@, session')]
    /\ clock' = clock + 1
    /\ UNCHANGED <<scan_vars, call, ret, filter_vars, run_vars, scroll_vars, http_vars,
                   loaded>>

Load(name) ==
    /\ loaded' = [name |-> name, ret |-> load(disk, name)]
    /\ UNCHANGED <<scan_vars, call, ret, filter_vars, run_vars, scroll_vars, http_vars,
                   session, disk, clock, saved>>

SessionNext ==
    \/ \E w \in SessionWords : AddCompletedWord(w)
    \/ \E r \in SessionResults : AddResult(r)
    \/ Save
    \/ \E n \in SessionNames : Load(n)

SessionSpec == SessionInit /\ [][SessionNext]_vars

\* the session --resume-session names in the runs of RunSpec: its one
\* completed word is the first word of the wordlists with words
ResumedSession ==
    add_completed_word(NewSession("s1", "http://x", "words.txt", 1, 0), "admin/")

\* ---------------------------------------------------------- scrolling
\* The key handlers of Tui::run on the results list, and what render_results
\* shows of it. Of TuiState only the number of results and the scroll offset
\* matter here.
MaxShown == 30

\* let max_visible = 20; // Approximate visible items
KeyMaxVisible == 20

\* for _ in 0..10
PageStep == 10

\* Constraint::Length(5) for the header, Length(5) for progress and stats
HeaderRows == 5
FooterRows == 5

\* the borders of the results block
BorderRows == 2

\* terminal heights tried: render_results shows 12, 20 and 28 rows
TermHeights == {24, 32, 40}

Max(a, b) == IF a >= b THEN a ELSE b

\* render_results: area.height.saturating_sub(2) of the middle chunk
VisibleRows(rows) == Max(0, rows - HeaderRows - FooterRows - BorderRows)

\* TuiState::scroll_up
scroll_up(offset) == IF offset > 0 THEN offset - 1 ELSE offset

\* TuiState::scroll_down
scroll_down(offset, len, max_visible) ==
    IF offset + max_visible < len THEN offset + 1 ELSE offset

\* TuiState::scroll_to_bottom
scroll_to_bottom(len, max_visible) ==
    IF len > max_visible THEN len - max_visible ELSE 0

RECURSIVE scroll_up_times(_, _)
\* for _ in 0..n { state.scroll_up(); }
scroll_up_times(n, offset) ==
    IF n = 0 THEN offset ELSE scroll_up_times(n - 1, scroll_up(offset))

RECURSIVE scroll_down_times(_, _, _, _)
\* for _ in 0..n { state.scroll_down(max_visible); }
scroll_down_times(n, offset, len, max_visible) ==
    IF n = 0 THEN offset
    ELSE scroll_down_times(n - 1, scroll_down(offset, len, max_visible), len, max_visible)

ScrollInit ==
    /\ ScanIdle
    /\ CallIdle
    /\ FilterIdle
    /\ RunIdle
    /\ SessionIdle
    /\ HttpIdle
    /\ scroll_offset = 0
    /\ results_len = 0
    /\ term_rows \in TermHeights

\* what a key leaves alone
key_frame == <<scan_vars, call, ret, filter_vars, run_vars, session_vars, http_vars,
               results_len, term_rows>>

\* TuiState::add_result for a TuiMessage::Result
AddRow ==
    /\ results_len < MaxShown
    /\ results_len' = results_len + 1
    /\ UNCHANGED <<scan_vars, call, ret, filter_vars, run_vars, session_vars, http_vars,
                   scroll_offset,
                   term_rows>>

\* Up, 'k'
KeyUp ==
    /\ scroll_offset' = scroll_up(scroll_offset)
    /\ UNCHANGED key_frame

\* Down, 'j'
KeyDown ==
    /\ scroll_offset' = scroll_down(scroll_offset, results_len, KeyMaxVisible)
    /\ UNCHANGED key_frame

\* Home, 'g'
KeyHome ==
    /\ scroll_offset' = 0
    /\ UNCHANGED key_frame

\* End, 'G'
KeyEnd ==
    /\ scroll_offset' = scroll_to_bottom(results_len, KeyMaxVisible)
    /\ UNCHANGED key_frame

KeyPageUp ==
    /\ scroll_offset' = scroll_up_times(PageStep, scroll_offset)
    /\ UNCHANGED key_frame

KeyPageDown ==
    /\ scroll_offset' = scroll_down_times(PageStep, scroll_offset, results_len, KeyMaxVisible)
    /\ UNCHANGED key_frame

ScrollNext ==
    \/ AddRow
    \/ KeyUp
    \/ KeyDown
    \/ KeyHome
    \/ KeyEnd
    \/ KeyPageUp
    \/ KeyPageDown

ScrollSpec == ScrollInit /\ [][ScrollNext]_vars

\* ------------------------------------------------- functions on their own
\* The functions below are called with arguments drawn from small sets; the
\* scan does not run meanwhile.

\* response.status().as_u16() values and parsed -s / -n lists tried
StatusInputs == {199, 200, 204, 299, 300, 301, 404}
PositiveInputs == SUBSET {200, 301}
NegativeInputs == SUBSET {301, 404}

ShouldDisplayCalls ==
    {[fn |-> "should_display", status |-> s, status_codes |-> p, negative_codes |-> n] :
        s \in StatusInputs, p \in PositiveInputs, n \in NegativeInputs}

\* the vhost scans' decision for one response: default_status_codes is
\* computed from the two parsed lists, then should_display from the status
CallShouldDisplay ==
    /\ call.fn = "should_display"
    /\ ret = NoRet
    /\ ret' = Returned(ShouldDisplay(call.status,
                                     DefaultStatusCodes(call.status_codes, call.negative_codes),
                                     call.negative_codes))
    /\ UNCHANGED <<scan_vars, call, filter_vars, side_vars, run_vars>>

\* words and extensions tried
WordInputs == {"admin", "login"}
ExtInputs == {".php", ".html"}

ExpandCalls ==
    {[fn |-> "expand_with_extensions", words |-> w, extensions |-> e] :
        w \in SeqsUpTo(WordInputs, MaxWords), e \in SeqsUpTo(ExtInputs, MaxExts)}

CallExpand ==
    /\ call.fn = "expand_with_extensions"
    /\ ret = NoRet
    /\ ret' = Returned(expand_with_extensions(call.words, call.extensions))
    /\ UNCHANGED <<scan_vars, call, filter_vars, side_vars, run_vars>>

\* lines tried: plain, padded, empty, blank, comments (one indented, one with
\* the mark inside the word), and a line whose bytes are not UTF-8
LineInputs ==
    {Line(TRUE, "admin"), Line(TRUE, " login\t"), Line(TRUE, ""), Line(TRUE, "  "),
     Line(TRUE, "#x"), Line(TRUE, " #x"), Line(TRUE, "a#b"), Line(FALSE, "caf?")}

\* wordlist files tried: one that cannot be opened, and every file of at most
\* MaxLines lines
FileInputs ==
    {[opens |-> FALSE, lines |-> <<>>]}
        \cup {[opens |-> TRUE, lines |-> l] : l \in SeqsUpTo(LineInputs, MaxLines)}

FromFileCalls == {[fn |-> "from_file", file |-> f] : f \in FileInputs}

CallFromFile ==
    /\ call.fn = "from_file"
    /\ ret = NoRet
    /\ ret' = from_file(call.file)
    /\ UNCHANGED <<scan_vars, call, filter_vars, side_vars, run_vars>>

\* the pieces of sep-separated text put together
RECURSIVE Join(_, _)
Join(segs, sep) ==
    IF Len(segs) = 1 THEN segs[1]
    ELSE segs[1] \o sep \o Join(Tail(segs), sep)

\* fuzz URLs tried: up to MaxSegs pieces without the keyword, with the keyword
\* between them (one piece: a URL without the keyword)
Segments == {"", "http://x/", "/", "FUZ"}

FuzzUrlInputs ==
    {Join(segs, "FUZZ") : segs \in SeqsUpTo(Segments, MaxSegs) \ {<<>>}}

\* words tried in a fuzz URL, one of them the keyword itself
FuzzWordInputs == {"admin", "FUZZ"}

FuzzUrlsCalls ==
    {[fn |-> "fuzz_urls", url |-> u, wordlist |-> w, extensions |-> e] :
        u \in FuzzUrlInputs, w \in SeqsUpTo(FuzzWordInputs, MaxWords) \ {<<>>},
        e \in {<<>>, <<"json">>}}

\* fuzz::run from the extensions to the url list
CallFuzzUrls ==
    /\ call.fn = "fuzz_urls"
    /\ ret = NoRet
    /\ ret' = Returned(FuzzUrls(call.url,
                                ExpandedWords(call.wordlist, get_extensions(call.extensions))))
    /\ UNCHANGED <<scan_vars, call, filter_vars, side_vars, run_vars>>

\* dir base URLs tried: an origin, then no path, the root, or a path with and
\* without a trailing '/'
Origins == {"http://x"}
BasePaths == {"", "/", "/app", "/app/"}

\* words tried in a dir run, one with its own leading '/'
DirWordInputs == {"admin", "/login"}

DirUrlsCalls ==
    {[fn |-> "dir_urls", url |-> o \o bp, wordlist |-> w, extensions |-> e,
      backup_extensions |-> b] :
        o \in Origins, bp \in BasePaths, w \in SeqsUpTo(DirWordInputs, MaxWords) \ {<<>>},
        e \in {<<>>, <<"php">>}, b \in BOOLEAN}

\* dir::run and run_single (run_with_tui alike) from Url::parse to the url list
CallDirUrls ==
    /\ call.fn = "dir_urls"
    /\ ret = NoRet
    /\ ret' = IF UrlParse(call.url).kind = "err"
              THEN UrlParse(call.url)
              ELSE Returned(DirUrls(UrlParse(call.url).value,
                                    ExpandedWords(call.wordlist,
                                                  DirExtensions(call.extensions,
                                                                call.backup_extensions))))
    /\ UNCHANGED <<scan_vars, call, filter_vars, side_vars, run_vars>>

\* the same dir command line run without and with --recursive
Depth0Calls ==
    {[fn |-> "dir_urls_depth0", url |-> o \o bp, wordlist |-> w, extensions |-> e,
      backup_extensions |-> FALSE] :
        o \in Origins, bp \in BasePaths, w \in SeqsUpTo(DirWordInputs, MaxWords) \ {<<>>},
        e \in {<<>>, <<"php">>}}

\* dir::run to the url list of run_single, and to the url list run_recursive
\* builds for the first entry it pops, (base_url.to_string(), 0)
CallDirUrlsDepth0 ==
    /\ call.fn = "dir_urls_depth0"
    /\ ret = NoRet
    /\ ret' = IF UrlParse(call.url).kind = "err"
              THEN UrlParse(call.url)
              ELSE LET base_url == UrlParse(call.url).value
                       ws == ExpandedWords(call.wordlist,
                                           DirExtensions(call.extensions,
                                                         call.backup_extensions))
                       current_base == UrlParse(UrlToString(base_url)).value
                   IN  Returned([single |-> DirUrls(base_url, ws),
                                 recursive |-> RecursiveDirUrls(current_base, ws)])
    /\ UNCHANGED <<scan_vars, call, filter_vars, side_vars, run_vars>>

Calls ==
    ShouldDisplayCalls \cup ExpandCalls \cup FromFileCalls \cup FuzzUrlsCalls
        \cup DirUrlsCalls \cup Depth0Calls

CallInit ==
    /\ ScanIdle
    /\ call \in Calls
    /\ ret = NoRet
    /\ FilterIdle
    /\ RunIdle
    /\ SideIdle

CallNext ==
    \/ CallShouldDisplay
    \/ CallExpand
    \/ CallFromFile
    \/ CallFuzzUrls
    \/ CallDirUrls
    \/ CallDirUrlsDepth0

CallSpec == CallInit /\ [][CallNext]_vars

\* ------------------------------------------------------- vhost requests
\* A vhost command line is run twice, once with the live display and once
\* with --no-tui (two runs of the program, one after the other, each with its
\* own HttpClient). Per run and candidate the model keeps the arguments of
\* client.request and the request HttpClient::request builds from them.

MaxVhosts == 3

MaxAgents == 2

NoneOpt == [some |-> FALSE]

Some(v) == [some |-> TRUE, value |-> v]

\* the non-empty lines of --user-agents-file, and the words of the wordlist
AgentNames == <<"ua1", "ua2", "ua3", "ua4">>

VhostWords == <<"a", "b", "c", "d", "e">>

\* HttpClient::new_from_common: a file without agents gives no rotation
LoadAgents(agents) == IF agents = <<>> THEN NoneOpt ELSE Some(agents)

HttpConfigs ==
    {[url |-> "http://x", method |-> m, headers |-> h, cookies |-> ck,
      user_agents |-> LoadAgents(SubSeq(AgentNames, 1, n)),
      vhosts |-> HostNames(SubSeq(VhostWords, 1, k), base_domain("http://x"))] :
        m \in {"POST"}, h \in {<<>>, <<<<"X-Api", "1">>>>},
        ck \in {NoneOpt, Some("sid=1")}, n \in 0..MaxAgents, k \in 1..MaxVhosts}

NewRequest == [pc |-> "new", index |-> -1, args |-> NoCall, built |-> NoCall]

HttpInit ==
    /\ ScanIdle
    /\ CallIdle
    /\ FilterIdle
    /\ RunIdle
    /\ SessionIdle
    /\ ScrollIdle
    /\ http_cfg \in HttpConfigs
    /\ user_agent_index = [s \in Sinks |-> 0]
    /\ http_req = [s \in Sinks |-> [c \in DOMAIN http_cfg.vhosts |-> NewRequest]]

\* an increment that is lost (C40 must reject it)
fetch_add_lost(cell, n) == cell

\* AtomicUsize::fetch_add(n, SeqCst): the value the cell holds afterwards (the
\* call returns the value it held before), in one indivisible step
fetch_add(cell, n) == cell + n

\* HttpClient::get_user_agent, with the index its fetch_add returned
get_user_agent(user_agents, index) ==
    IF user_agents.some
    THEN Some(user_agents.value[(index % Len(user_agents.value)) + 1])
    ELSE NoneOpt

\* the match on method.to_uppercase() (the methods tried are upper case)
HttpMethod(method) ==
    IF method \in {"GET", "POST", "HEAD", "PUT", "DELETE", "PATCH"} THEN method ELSE "GET"

\* HttpClient::request up to request.send(): the request as it is sent
request(ua, url, method, headers, cookies) ==
    [target |-> url,
     method |-> HttpMethod(method),
     headers |-> (IF ua.some THEN <<<<"User-Agent", ua.value>>>> ELSE <<>>)
                 \o headers
                 \o (IF cookies.some THEN <<<<"Cookie", cookies.value>>>> ELSE <<>>)]

\* vhost_headers.push(("Host", vhost))
VhostHeaders(headers, vhost) == Append(headers, <<"Host", vhost>>)

\* the cookies argument of client.request: run passes args.common.cookies,
\* scan_vhost_with_tui passes None
CookiesArg(s, cookies) == IF s = "tui" THEN NoneOpt ELSE cookies

\* the future of vhost c in run s is polled first: the Host header is pushed,
\* client.request is called and get_user_agent takes its index
VhostCall(s, c) ==
    /\ http_cfg # NoCall
    /\ c \in DOMAIN http_req[s]
    /\ http_req[s][c].pc = "new"
    /\ s = "batch" => \A d \in DOMAIN http_req["tui"] : http_req["tui"][d].pc = "sent"
    /\ http_req' =
          [http_req EXCEPT ![s][c] =
              [pc |-> "called",
               index |-> IF http_cfg.user_agents.some THEN user_agent_index[s] ELSE -1,
               args |-> [target |-> http_cfg.url,
                         method |-> http_cfg.method,
                         headers |-> VhostHeaders(http_cfg.headers, http_cfg.vhosts[c]),
                         cookies |-> CookiesArg(s, http_cfg.cookies)],
               built |-> NoCall]]
    /\ user_agent_index' =
          IF http_cfg.user_agents.some
          THEN [user_agent_index EXCEPT ![s] = fetch_add(@, 1)]
          ELSE user_agent_index
    /\ UNCHANGED <<scan_vars, call, ret, filter_vars, run_vars, session_vars, scroll_vars,
                   http_cfg>>

\* the rest of HttpClient::request: the agent of the index, the headers, the
\* cookies, send
HttpSend(s, c) ==
    /\ http_cfg # NoCall
    /\ c \in DOMAIN http_req[s]
    /\ http_req[s][c].pc = "called"
    /\ LET r == http_req[s][c]
       IN  http_req' =
              [http_req EXCEPT ![s][c] =
                  [r EXCEPT !.pc = "sent",
                            !.built = request(get_user_agent(http_cfg.user_agents, r.index),
                                              r.args.target, r.args.method, r.args.headers,
                                              r.args.cookies)]]
    /\ UNCHANGED <<scan_vars, call, ret, filter_vars, run_vars, session_vars, scroll_vars,
                   http_cfg, user_agent_index>>

HttpNext ==
    \/ \E s \in Sinks, c \in 1..MaxVhosts : VhostCall(s, c)
    \/ \E s \in Sinks, c \in 1..MaxVhosts : HttpSend(s, c)

HttpSpec == HttpInit /\ [][HttpNext]_vars

\* ------------------------------------------------------------------ claims

Count(seq, k) == Cardinality({i \in DOMAIN seq : seq[i] = k})

Dispatched(c) == fut[c] \in {"request", "resolved", "finished"}

Failed == {c \in Cands : resp[c].kind = "err"}

Succeeded == {c \in Cands : resp[c].kind = "ok"}

ScanReturned == scan_pc = "returned"

\* C1: the transport is invoked exactly once per candidate: never twice at any
\* moment, once for every candidate whose probe has been dispatched, and once
\* for every candidate when the scan has been collected; a candidate whose
\* probe ended in a transport error is finished, not probed again.
C1_ProbedExactlyOnce ==
    /\ \A c \in Cands : calls[c] <= 1
    /\ \A c \in Cands : Dispatched(c) => calls[c] = 1
    /\ \A c \in Cands : (resp[c].kind = "err" /\ fut[c] # "resolved") => fut[c] = "finished"
    /\ scan_pc # "running" => \A c \in Cands : calls[c] = 1 /\ fut[c] = "finished"

C1_Witness ==
    /\ ScanReturned
    /\ total >= 2
    /\ Failed # {}
    /\ Succeeded # {}
    /\ \A c \in Cands : calls[c] = 1

\* C2: the number of probes issued and not yet resolved never exceeds the
\* configured thread count.
C2_InFlightAtMostThreads == Cardinality(InFlight) <= threads

C2_Witness ==
    /\ threads >= 1
    /\ Cardinality(InFlight) = threads
    /\ next_url <= total

\* C3: Done is sent at most once, exactly once by the time the scan task of a
\* TUI run has returned, and once Done has been sent no future sends a
\* Scanned, Result or Error (and no second Done follows).
C3_DoneOnceAndLast ==
    /\ [](done_sent <= 1)
    /\ []((ScanReturned /\ ~no_tui) => done_sent = 1)
    /\ [][done_sent >= 1 => (emitted' = emitted /\ done_sent' = done_sent)]_vars

C3_Witness ==
    /\ done_sent = 1
    /\ total >= 2
    /\ threads >= 2
    /\ \A c \in Cands : Len(emitted[c]) = 2

\* C4: for every thread count the command line accepts, 0 included, if every
\* issued probe resolves the scan task eventually returns (having sent Done on
\* the TUI paths).
C4_EventuallyReturns == <>ScanReturned

\* C5 (TUI paths): Scanned is sent at most once per candidate, exactly once for
\* every candidate whose probe has been dispatched whatever its outcome, and
\* when the scan has returned the Scanned sent number as many as the candidates.
C5_ScannedOncePerCandidate ==
    ~no_tui =>
        /\ \A c \in Cands : Count(emitted[c], "Scanned") <= 1
        /\ \A c \in Cands : Dispatched(c) => Count(emitted[c], "Scanned") = 1
        /\ ScanReturned =>
              Cardinality({c \in Cands : Count(emitted[c], "Scanned") = 1}) = total

C5_Witness ==
    /\ ~no_tui
    /\ ScanReturned
    /\ total >= 2
    /\ Failed # {}
    /\ Succeeded # {}
    /\ \A c \in Cands : Count(emitted[c], "Scanned") = 1

\* C6: a Result is sent for a candidate only when the classifier accepts its
\* outcome under the active status-code configuration (negative codes if
\* given, else positive codes, else 2xx), in every mode (dns: the answer has
\* addresses).
C6_ResultOnlyWhenAccepted ==
    \A c \in Cands :
        Count(emitted[c], "Result") > 0 =>
            /\ resp[c].kind = "ok"
            /\ IF mode = "dns"
               THEN resp[c].ips
               ELSE IF negative_codes # {} THEN resp[c].status \notin negative_codes
               ELSE IF status_codes # {} THEN resp[c].status \in status_codes
               ELSE resp[c].status \in 200..299

\* C7: a transport error does not end the scan (every candidate is still
\* probed before the scan returns) and every failed probe is counted exactly
\* once as Errored: when the scan has returned, the candidates counted are
\* exactly the ones whose probe failed.
C7_ErrorsCountedOnce ==
    ScanReturned =>
        /\ \A c \in Cands : calls[c] = 1
        /\ \A c \in Cands :
              Count(emitted[c], "Error") = (IF c \in Failed THEN 1 ELSE 0)

\* C8: once the quit key has been observed (Tui::run has left its loop), no
\* probe is started for a candidate that was not yet dispatched.
C8_NoDispatchAfterQuit ==
    [][(tui_pc \in {"awaitScan", "returned"}) => (calls' = calls)]_vars

\* C9 (TUI paths): for every candidate at most one of Result and Error is ever
\* sent, a Result only for a success outcome and an Error only for a transport
\* error, and in dir and fuzz scans a finished candidate has exactly one.
C9_ResultXorError ==
    ~no_tui =>
        \A c \in Cands :
            /\ Count(emitted[c], "Result") + Count(emitted[c], "Error") <= 1
            /\ Count(emitted[c], "Result") = 1 => resp[c].kind = "ok"
            /\ Count(emitted[c], "Error") = 1 => resp[c].kind = "err"
            /\ (mode \in {"dir", "fuzz"} /\ fut[c] = "finished") =>
                  Count(emitted[c], "Result") + Count(emitted[c], "Error") = 1

C9_Witness ==
    /\ ~no_tui
    /\ mode = "fuzz"
    /\ ScanReturned
    /\ \E c \in Cands : Count(emitted[c], "Result") = 1
    /\ \E c \in Cands : Count(emitted[c], "Error") = 1

\* C10 (the vhost classifier): with a non-empty negative set, a response whose
\* status is in the negative set is not accepted whatever the positive set
\* holds: no Result is sent for it on the TUI path, and the batch path shows
\* it only under --expanded.
C10_NegativeNeverAccepted ==
    (mode = "vhost" /\ negative_codes # {}) =>
        \A c \in Cands :
            (fut[c] = "finished" /\ resp[c].kind = "ok"
                /\ resp[c].status \in negative_codes) =>
                /\ Count(emitted[c], "Result") = 0
                /\ expanded \/ \A i \in DOMAIN printed : printed[i].url # c

C10_Witness ==
    /\ mode = "vhost"
    /\ ~no_tui
    /\ negative_codes # {}
    /\ \E c \in Cands :
          /\ fut[c] = "finished"
          /\ resp[c].kind = "ok"
          /\ resp[c].status \in negative_codes
          /\ resp[c].status \in status_codes
          /\ emitted[c] = <<"Scanned">>

\* C11: for every status and every pair of positive and negative code sets the
\* vhost classifier's decision is the reference one: with a non-empty negative
\* set, accept iff the status is not in it; else with a non-empty positive set,
\* accept iff the status is in it; else accept iff 200 <= status < 300.
C11_AcceptEqualsReference ==
    (call.fn = "should_display" /\ ret.kind = "ok") =>
        ret.value =
            IF call.negative_codes # {} THEN call.status \notin call.negative_codes
            ELSE IF call.status_codes # {} THEN call.status \in call.status_codes
            ELSE call.status >= 200 /\ call.status < 300

C11_Witness ==
    /\ call.fn = "should_display"
    /\ call.status_codes = {200}
    /\ call.negative_codes = {}
    /\ call.status = 301
    /\ ret = Returned(FALSE)

\* a finished candidate's response was surfaced as a match: sent as a Result
\* (TUI) or printed (batch)
Surfaced(c) ==
    \/ Count(emitted[c], "Result") > 0
    \/ \E i \in DOMAIN printed : printed[i].url = c

\* C12: with --smart-404, a response whose fingerprint (content hash or size)
\* is in the baseline that calibration collects is rejected whatever its
\* status: it is never surfaced as a match.
C12_Smart404NeverSurfaced ==
    \A c \in Cands :
        \A answered \in 1..3 :
            (/\ smart_404
             /\ fut[c] = "finished"
             /\ resp[c].kind = "ok"
             /\ is_false_positive(Calibrate(NewDetector(smart_404), answered),
                                  body[c], ContentLength(body[c])))
                => ~Surfaced(c)

\* C13: with a non-empty --filter-size set, a response whose content length is
\* in the set is rejected whatever its status: it is never surfaced as a match.
C13_FilteredSizeNeverSurfaced ==
    filter_size # {} =>
        \A c \in Cands :
            (/\ fut[c] = "finished"
             /\ resp[c].kind = "ok"
             /\ ContentLength(body[c]) \in filter_size)
                => ~Surfaced(c)

\* the outcomes the vhost classifier accepts
Accepted ==
    {c \in Cands :
        /\ resp[c].kind = "ok"
        /\ ShouldDisplay(resp[c].status,
                         DefaultStatusCodes(status_codes, negative_codes), negative_codes)}

\* C14 (the vhost batch scan): --expanded surfaces every outcome but leaves the
\* found count alone: when the scan has returned, the count reported by
\* print_summary is the number of outcomes the classifier accepts, with the
\* flag set as with the flag unset.
C14_ExpandedKeepsFoundCount ==
    (mode = "vhost" /\ no_tui /\ ScanReturned) => found = Cardinality(Accepted)

\* C15: expand_with_extensions(W, E) has len(W) * (1 + len(E)) entries, and
\* for each word of W in order the bare word comes first and is followed by
\* word+ext for each ext in the order of E.
C15_ExpansionShape ==
    (call.fn = "expand_with_extensions" /\ ret.kind = "ok") =>
        LET W == call.words
            E == call.extensions
            k == 1 + Len(E)
        IN /\ Len(ret.value) = Len(W) * k
           /\ \A i \in 1..Len(W) :
                 /\ ret.value[(i - 1) * k + 1] = W[i]
                 /\ \A j \in 1..Len(E) : ret.value[(i - 1) * k + 1 + j] = W[i] \o E[j]

C15_Witness ==
    /\ call.fn = "expand_with_extensions"
    /\ call.words = <<"admin", "login">>
    /\ call.extensions = <<".php", ".html">>
    /\ ret = Returned(<<"admin", "admin.php", "admin.html",
                        "login", "login.php", "login.html">>)

\* the lines of a file that are neither empty after trimming nor comments
IsEntry(line) == trim(line.text) # "" /\ SubSeq(trim(line.text), 1, 1) # "#"

Entries(lines) ==
    LET kept == SelectSeq(lines, IsEntry)
    IN [i \in DOMAIN kept |-> trim(kept[i].text)]

\* C16: loading a wordlist yields exactly the file's lines, trimmed, in file
\* order and with duplicates kept, minus the lines that are empty after
\* trimming and the lines that start with '#'; it fails iff that sequence is
\* empty or the file cannot be opened.
C16_LoadedWordsAreTheLines ==
    (call.fn = "from_file" /\ ret.kind # "none") =>
        IF ~call.file.opens \/ Entries(call.file.lines) = <<>>
        THEN ret.kind = "err"
        ELSE ret = Returned(Entries(call.file.lines))

\* the wordlist is missing (no -w, or a file that cannot be opened) or empty
\* (no entry among its lines), or the fuzz URL lacks the keyword
ConfigurationError(a) ==
    \/ ~a.wordlist
    \/ ~a.file.opens
    \/ Entries(a.file.lines) = <<>>
    \/ a.mode = "fuzz" /\ ~contains(a.url, "FUZZ")

\* C17: a configuration error aborts the run before any probing: with an empty
\* or missing wordlist, or a fuzz URL without FUZZ, no transport call (the
\* wildcard probe included) is ever issued and the run returns an error, on
\* the TUI and the --no-tui paths of every mode.
C17_ConfigErrorBeforeProbing ==
    (run_pc # "off" /\ ConfigurationError(run_args)) =>
        /\ requests = <<>>
        /\ run_pc = "done" => run_ret.kind = "err"

C17_Witness ==
    /\ run_args.mode = "dir"
    /\ run_args.no_tui
    /\ ~run_args.recursive
    /\ run_args.proxy_ok
    /\ UrlParse(run_args.url).kind = "ok"
    /\ run_args.wordlist
    /\ run_args.file.opens
    /\ Len(run_args.file.lines) > 0
    /\ run_pc = "done"
    /\ run_ret = Raised("Wordlist is empty or contains no valid entries")
    /\ requests = <<>>

\* C18: the fuzz targets are, word by word in wordlist (or expanded) order, the
\* base URL with every occurrence of FUZZ replaced by the word: whatever
\* keyword-free pieces the URL is made of, the target is the same pieces with
\* the word between them, and there is one target per word.
C18_FuzzTargets ==
    (call.fn = "fuzz_urls" /\ ret.kind = "ok") =>
        LET ws == ExpandedWords(call.wordlist, get_extensions(call.extensions))
        IN /\ Len(ret.value) = Len(ws)
           /\ \A segs \in SeqsUpTo(Segments, MaxSegs) \ {<<>>} :
                 Join(segs, "FUZZ") = call.url =>
                    \A i \in DOMAIN ws : ret.value[i] = Join(segs, ws[i])

C18_Witness ==
    /\ call.fn = "fuzz_urls"
    /\ call.url = "http://x/FUZZ/FUZZ"
    /\ call.wordlist = <<"admin", "FUZZ">>
    /\ call.extensions = <<"json">>
    /\ ret = Returned(<<"http://x/admin/admin", "http://x/admin.json/admin.json",
                        "http://x/FUZZ/FUZZ", "http://x/FUZZ.json/FUZZ.json">>)

\* C19: the dir candidates are, in expansion order, the base URL with the
\* word's path appended with exactly one leading '/': the origin, the base
\* URL's own path (without its trailing '/') as prefix, one '/', the word.
C19_DirTargets ==
    (call.fn = "dir_urls" /\ ret.kind = "ok") =>
        LET ws == ExpandedWords(call.wordlist,
                                DirExtensions(call.extensions, call.backup_extensions))
        IN /\ Len(ret.value) = Len(ws)
           /\ \A o \in Origins, bp \in BasePaths :
                 o \o bp = call.url =>
                    \A i \in DOMAIN ws :
                       ret.value[i] =
                          o \o trim_end_matches(bp, "/") \o "/" \o trim_start_matches(ws[i], "/")

\* C20: in a recursive dir scan a probe answered 200, 301 or 302 for a URL
\* ending in '/' makes that URL a discovered directory, pushed with depth + 1
\* and scanned later unless it is deeper than max_depth or scanned already:
\* when the run has returned, every such URL within max_depth is among the
\* scanned directories.
C20_DiscoveredDirsAreScanned ==
    (run_pc = "done" /\ run_ret.kind = "ok" /\ IsRecursive(run_args)) =>
        \A h \in hits : h.depth <= run_args.depth => h.url \in scanned_dirs

\* C21: in a recursive dir scan no directory URL is scanned more than once,
\* whatever lists of discovered directories the scans return, one that names a
\* directory several times before it is first popped included.
C21_NoDirectoryScannedTwice ==
    \A i, j \in DOMAIN scans : scans[i].url = scans[j].url => i = j

\* a directory was scanned while a second copy of it, pushed before that scan,
\* is still on the stack
C21_Witness ==
    /\ run_pc = "pop"
    /\ \E i \in DOMAIN dirs_to_scan :
          /\ dirs_to_scan[i].depth <= run_args.depth
          /\ \E k \in DOMAIN scans : scans[k].url = dirs_to_scan[i].url

\* C22: every directory a recursive dir scan scans has depth at most
\* max_depth, the base being at depth 0 and a directory discovered while
\* scanning depth d at depth d + 1, and the traversal terminates.
C22_DepthBoundedAndTerminates ==
    /\ [](\A k \in DOMAIN scans : scans[k].depth <= run_args.depth)
    /\ (IsRecursive(run_args) ~> run_pc = "done")

\* C23: over a whole recursive dir run the same fully-qualified candidate URL
\* is never dispatched to the transport twice, whatever the wordlist.
C23_NoUrlDispatchedTwice ==
    IsRecursive(run_args) =>
        \A i, j \in DOMAIN requests : requests[i] = requests[j] => i = j

\* C24: completed_words is append-only and holds each word at most once,
\* after any sequence of add_completed_word calls, repeats included.
C24_CompletedWordsGrowWithoutDuplicates ==
    /\ [](\A i, j \in DOMAIN session.completed_words :
            session.completed_words[i] = session.completed_words[j] => i = j)
    /\ [][Len(session.completed_words') >= Len(session.completed_words)
          /\ SubSeq(session.completed_words', 1, Len(session.completed_words))
                = session.completed_words]_vars

\* two sessions that differ in last_updated at most
SameButUpdated(a, b) == [a EXCEPT !.last_updated = 0] = [b EXCEPT !.last_updated = 0]

\* C26: after any sequence of saves under one name, load of that name returns
\* the session exactly as it was at the most recent of them; saving an
\* unchanged session again changes nothing of what load returns apart from
\* last_updated.
C26_LoadReturnsLastSave ==
    /\ [](\A n \in SessionNames :
            saved[n] # <<>> => load(disk, n) = Returned(saved[n][Len(saved[n])]))
    /\ [][\A n \in SessionNames :
            (/\ saved[n] # <<>>
             /\ Len(saved'[n]) = Len(saved[n]) + 1
             /\ SameButUpdated(saved[n][Len(saved[n])], saved'[n][Len(saved'[n])]))
            => (/\ load(disk', n).kind = "ok"
                /\ SameButUpdated(load(disk, n).value, load(disk', n).value))]_vars

\* a third save under a name has replaced two earlier ones with other
\* completed words, and load has returned the session of the third save
C26_Witness ==
    \E n \in SessionNames :
        /\ Len(saved[n]) = 3
        /\ saved[n][1].completed_words # saved[n][2].completed_words
        /\ SameButUpdated(saved[n][2], saved[n][3])
        /\ loaded = [name |-> n, ret |-> Returned(saved[n][3])]
        /\ saved[n][3].completed_words # <<>>

\* C25: a resumed dir scan dispatches no candidate whose word is in the
\* completed_words of the loaded session (so none at all when they cover the
\* wordlist).
C25_CompletedWordsNotDispatched ==
    (run_args.mode = "dir" /\ ~run_args.no_tui /\ run_args.resume_session) =>
        \A i \in DOMAIN requests : \A k \in DOMAIN run_words :
            is_word_completed(ResumedSession, run_words[k]) =>
                requests[i] # DirUrls(UrlParse(run_args.url).value, <<run_words[k]>>)[1]

\* the format write_results_to_file is asked for names the file it leaves
FormatWritten == IF output_format \in {"json", "csv"} THEN output_format ELSE "plain"

\* C27: when the user quits the display (before Done or after) and an output
\* file is configured, then once the run has returned the file holds, in the
\* configured format, the results the display had accumulated, in the order
\* it received them, and nothing else.
C27_QuitWritesAccumulatedResults ==
    (tui_pc = "returned" /\ output) =>
        /\ out_file.format = FormatWritten
        /\ out_file.header = (output_format = "csv")
        /\ out_file.rows = state.results
        /\ Len(out_file.rows) = state.found

\* the user quit before Done, after one Result had been received and while
\* another was still to come; the JSON file holds the one received
C27_Witness ==
    /\ tui_pc = "returned"
    /\ output
    /\ output_format = "json"
    /\ ~state.scan_complete
    /\ Len(state.results) = 1
    /\ Cardinality({c \in Cands : \E i \in DOMAIN emitted[c] : emitted[c][i] = "Result"}) = 2
    /\ out_file = [format |-> "json", header |-> FALSE, rows |-> state.results]

\* C28: a batch dir or fuzz run with an output file and the json or csv
\* format has, once the scan has completed, flushed the buffered matches to
\* the file: the file holds every match printed.
C28_BufferFlushedAtCompletion ==
    (/\ no_tui
     /\ mode \in {"dir", "fuzz"}
     /\ output
     /\ output_format \in {"json", "csv"}
     /\ scan_pc = "returned") =>
        /\ out_file.format = output_format
        /\ out_file.rows = printed

C29_ScrollOffsetWithinRange ==
    /\ 0 <= scroll_offset
    /\ scroll_offset <= Max(0, results_len - VisibleRows(term_rows))

\* C31: in every state of the display during a dir or fuzz scan,
\* found = results.len() and found + errors <= scanned <= total, whatever
\* the order in which the futures send.
C31_DisplayCounters ==
    (~no_tui /\ mode \in {"dir", "fuzz"}) =>
        /\ state.found = Len(state.results)
        /\ state.found + state.errors <= state.scanned
        /\ state.scanned <= total

\* two futures in progress at once: the second candidate has run to its end
\* and its events are applied while the first probe is still out
C31_Witness ==
    /\ ~no_tui
    /\ mode \in {"dir", "fuzz"}
    /\ total = 2
    /\ fut[1] = "request"
    /\ fut[2] = "finished"
    /\ state.scanned = 2
    /\ state.found + state.errors = 1

\* the kinds of the queued messages of candidate c, oldest first
QueuedOf(c) ==
    LET OfCand(m) == m.cand = c
    IN  Kinds(SelectSeq(chan, OfCand))

IsSuffix(s, t) ==
    /\ Len(s) <= Len(t)
    /\ s = SubSeq(t, Len(t) - Len(s) + 1, Len(t))

\* C32: a candidate's Scanned is sent before its probe is issued and before
\* its own Result or Error, and the channel hands a candidate's events to the
\* display in the order they were sent: the display never sees the Result or
\* Error of a candidate before its Scanned.
C32_ScannedFirst ==
    ~no_tui =>
        \A c \in Cands :
            /\ calls[c] >= 1 => (emitted[c] # <<>> /\ emitted[c][1] = "Scanned")
            /\ \A i \in DOMAIN emitted[c] :
                  emitted[c][i] \in {"Result", "Error"} =>
                      \E j \in 1..(i - 1) : emitted[c][j] = "Scanned"
            /\ IsSuffix(QueuedOf(c), emitted[c])

\* a candidate's Scanned and Result wait in the channel together, behind the
\* Scanned of another candidate whose probe is still out
C32_Witness ==
    /\ ~no_tui
    /\ rx_open
    /\ \E c \in Cands, d \in Cands :
          /\ c # d
          /\ emitted[c] = <<"Scanned", "Result">>
          /\ QueuedOf(c) = <<"Scanned", "Result">>
          /\ QueuedOf(d) = <<"Scanned">>
          /\ fut[d] = "request"

\* C33: while the user has not quit, a display whose scan_complete is set has
\* lost no event: scanned = total, and in a dir or fuzz scan
\* found + errors = total.
C33_CompleteMeansAllCounted ==
    (~no_tui /\ rx_open /\ state.scan_complete) =>
        /\ state.scanned = total
        /\ mode \in {"dir", "fuzz"} => state.found + state.errors = total

\* the display has consumed Done of a dir or fuzz scan of two candidates, one
\* answered and one failed
C33_Witness ==
    /\ ~no_tui
    /\ rx_open
    /\ state.scan_complete
    /\ mode \in {"dir", "fuzz"}
    /\ total = 2
    /\ state.found = 1
    /\ state.errors = 1
    /\ chan = <<>>

\* C34: consuming Done, or finding the channel disconnected, only sets
\* scan_complete and leaves the display in its loop; the loop is left only
\* from its head by the quit key, which drops the Receiver; and the run
\* returns only once the user has quit and the scan task has returned.
C34_LoopEndsOnlyOnQuit ==
    [][/\ (~state.scan_complete /\ state'.scan_complete) =>
              /\ tui_pc' \in {"loop", "recv"}
              /\ rx_open' = rx_open
       /\ (tui_pc \in {"loop", "recv"} /\ tui_pc' \notin {"loop", "recv"}) =>
              /\ tui_pc = "loop"
              /\ tui_pc' = "awaitScan"
              /\ rx_open /\ ~rx_open'
       /\ tui_pc' = "returned" => (~rx_open' /\ scan_pc' = "returned")]_vars

\* the display consumed Done and stayed in its loop; the user quit later and
\* the run returned
C34_Witness ==
    /\ tui_pc = "returned"
    /\ state.scan_complete
    /\ state.scanned = total
    /\ ~rx_open
    /\ scan_pc = "returned"

\* C35: once the user has quit the display the channel never holds the scan
\* task back (a send to the dropped Receiver fails at once), so if every
\* issued probe resolves the scan task finishes and the TUI run returns.
C35_QuitLeadsToReturn == (tui_pc = "awaitScan") ~> (tui_pc = "returned")

IsPrefix(s, t) ==
    /\ Len(s) <= Len(t)
    /\ s = SubSeq(t, 1, Len(s))

\* C36: in an iteration whose first draw fails the display neither polls the
\* keyboard nor takes an event from the channel: it does not go on to the key
\* match or to try_recv, the quit key is not acted on, the queued events stay
\* queued (the scan may add to them) and the state is not touched.
C36_FailedDrawSkipsInputAndEvents ==
    [][(tui_pc = "loop" /\ draw_fails) =>
          /\ tui_pc' \notin {"recv", "awaitScan", "returned"}
          /\ IsPrefix(chan, chan')
          /\ state' = state]_vars

\* drawing fails while the whole scan, Done included, waits in the channel:
\* nothing of it has been applied
C36_Witness ==
    /\ tui_pc = "loop"
    /\ draw_fails
    /\ scan_pc = "returned"
    /\ Len(chan) >= 3
    /\ chan[Len(chan)].kind = "Done"
    /\ state.scanned = 0
    /\ ~state.scan_complete

\* C37: after End (scroll_to_bottom) the last result is inside the rendered
\* window, scroll_offset + rendered rows >= results.len(), however many rows
\* the terminal renders.
C37_EndShowsLastResult ==
    [][KeyEnd => scroll_offset' + VisibleRows(term_rows') >= results_len']_vars

\* C38: at depth 0 a recursive dir scan builds the same candidate URLs, in
\* the same order, as a dir scan without --recursive of the same base URL,
\* wordlist and extensions, whatever the path of the base URL.
C38_Depth0SameCandidates ==
    (call.fn = "dir_urls_depth0" /\ ret.kind = "ok") =>
        ret.value.single = ret.value.recursive

\* the vhosts of run s whose request has been called, and those sent
Called(s) == {c \in DOMAIN http_req[s] : http_req[s][c].pc # "new"}

SentIn(s) == {c \in DOMAIN http_req[s] : http_req[s][c].pc = "sent"}

\* C39: a vhost scan issues for every candidate the same request (target
\* URL, method, headers with the candidate's Host header, cookies) with the
\* live display as with --no-tui; configured cookies are sent in both.
C39_SameRequestsInBothSinks ==
    \A c \in Called("tui") \cap Called("batch") :
        /\ http_req["tui"][c].args = http_req["batch"][c].args
        /\ http_req["tui"][c].args.cookies = http_cfg.cookies

\* the User-Agent header of a request as it was sent
UserAgentOf(built) == built.headers[1][2]

\* C40: with a rotation list of n >= 1 agents the requests of a run never
\* take the same index: the indices taken are 0, 1, 2, .. without a gap, the
\* request that took index k is sent with agents[k mod n], and among the
\* requests of any n consecutive indices every agent is used exactly once,
\* in whatever order the futures are polled.
C40_RotationIndexNeverShared ==
    \A s \in Sinks :
        http_cfg # NoCall /\ http_cfg.user_agents.some =>
            LET agents == http_cfg.user_agents.value
                n == Len(agents)
                idx(c) == http_req[s][c].index
            IN  /\ \A c \in Called(s), d \in Called(s) : c # d => idx(c) # idx(d)
                /\ {idx(c) : c \in Called(s)} = 0..(Cardinality(Called(s)) - 1)
                /\ \A c \in SentIn(s) :
                      UserAgentOf(http_req[s][c].built) = agents[(idx(c) % n) + 1]
                /\ \A w \in 0..(Cardinality(Called(s)) - n) :
                      (\A c \in Called(s) : idx(c) \in w..(w + n - 1) => c \in SentIn(s)) =>
                          \A p \in 1..n :
                              Cardinality({c \in SentIn(s) :
                                  /\ idx(c) \in w..(w + n - 1)
                                  /\ UserAgentOf(http_req[s][c].built) = agents[p]}) = 1

\* three requests share a rotation of two agents; the futures were polled out
\* of list order (the last vhost took index 0) and the third index wrapped
\* around to the first agent
C40_Witness ==
    /\ http_cfg # NoCall
    /\ http_cfg.user_agents.some
    /\ Len(http_cfg.user_agents.value) = 2
    /\ SentIn("batch") = {1, 2, 3}
    /\ http_req["batch"][3].index = 0
    /\ http_req["batch"][1].index = 2
    /\ UserAgentOf(http_req["batch"][1].built) = "ua1"

====
